---- MODULE Spec2Model ----
(***************************************************************************)
(* Event / Waiter signalling of the h2o kernel (sched/ipc.rs): an Event    *)
(* holds an atomic signal word and a mutex-protected list of waiters.      *)
(* Every operation is split at its accesses to shared state: an atomic     *)
(* load, a compare-exchange, or one critical section on the waiter list.   *)
(***************************************************************************)
EXTENDS Integers, Sequences, FiniteSets, TLC

\* Width of the modelled signal word (usize in the source).
NBits == 2
\* Callback counters saturate here; "invoked twice" is still visible.
CallCap == 2

SIG_GENERIC == 1
SIG_READ == 2

\* the signal values built from the two modelled bits
Signals == {0, SIG_GENERIC, SIG_READ, SIG_GENERIC + SIG_READ}

\* the (clear, set) arguments the callers pass to notify
NotifyArgs == {<<0, SIG_GENERIC>>, <<0, SIG_READ>>, <<SIG_GENERIC, 0>>, <<SIG_READ, 0>>,
               <<SIG_GENERIC + SIG_READ, SIG_READ>>}

\* CPUs that call into the Event, the task that blocks, the timer context
Procs == {"c1", "c2"}
Tasks == {"t1"}
Timer == "tm"
\* the Events multiplexed into the Dispatcher
Events == {"e1", "e2", "e3"}
AllProcs == Procs \cup Tasks \cup {Timer}

\* the waiter objects (Arc<dyn Waiter>): plain observers and the Blocker of t1
Waiters == {"w1", "w2"}
Blockers == {"b1"}
AllWaiters == Waiters \cup Blockers
BlockerOf(t) == "b1"

Bit(n, i) == (n \div (2 ^ i)) % 2

\* a & b over the bits i, i-1, .. 0
RECURSIVE AndUpTo(_, _, _)
AndUpTo(a, b, i) ==
    IF i < 0 THEN 0
    ELSE Bit(a, i) * Bit(b, i) * (2 ^ i) + AndUpTo(a, b, i - 1)

\* a & b, a | b and !a on NBits-wide words
And(a, b) == AndUpTo(a, b, NBits - 1)
Or(a, b) == a + b - And(a, b)
Not(a) == (2 ^ NBits - 1) - a

VARIABLES
    signal,       \* EventData::signal
    waiters,      \* EventData::waiters, in Vec order
    waiter_data,  \* Waiter::waiter_data of every waiter object
    used,         \* waiter objects already handed to Event::wait
    notified,     \* number of on_notify invocations per waiter
    canceled,     \* number of on_cancel invocations per waiter
    unwaited,     \* number of unwait calls that returned found = true
    got_signal,   \* signal passed to the waiter's last callback
    at_wait,      \* waiters whose on_notify was invoked by wait_impl itself
    established,  \* edge-triggered waiters that were in the list when a
                  \* notify's exchange took their condition from unmet to met
    lin,          \* the signal obtained by applying the notify calls in
                  \* the order of their linearization points
    pc,           \* position of every context inside its current call
    arg,          \* waiter argument of the current wait / unwait
    l_clear,      \* notify_impl: clear
    l_set,        \* notify_impl: set
    l_prev,       \* notify_impl: prev
    l_signal,     \* the local `signal` of the current call
    l_taken,      \* cancel: the list taken out of the mutex
    status,       \* Blocker: the outcome (matched, signal)
    task_state,   \* Init / Ready / Blocked / Exit of every task
    run_queue,    \* number of run-queue entries every task owns
    timer,        \* the timeout timer of the blocked wait
    result,       \* what obj_wait returned
    d_kind,       \* which Dispatcher the handle holds: none, v1 (disp_new), v2 (disp_new2)
    d_cap,        \* Dispatcher: capacity of the ready queue
    d_next_key,   \* Dispatcher: the key the next push returns
    d_regs,       \* Dispatcher: the registrations in push order
    d_ready,      \* Dispatcher: the ready queue, oldest first
    d_signaled,   \* Dispatcher: its own Event is signaled
    d_lost,       \* Dispatcher: registrations whose notification was dropped
    d_fired,      \* registrations in the order their match or cancel occurred
    d_popped,     \* the entries pop has returned, in order
    d_ret,        \* what the last Dispatcher syscall returned
    e_signal,     \* EventData::signal of every multiplexed Event
    e_waiters,    \* EventData::waiters of every multiplexed Event
    e_alive,      \* the multiplexed Events not yet destroyed
    o_features,   \* Feature set of the object behind every waitable handle
    d_features,   \* Feature set of the Dispatcher handle
    o_alive,      \* the Event of the waited object can still be upgraded
    h_blocker,    \* the Blocker handle of obj_await in the handle table
    list_lock,    \* holder of the waiters mutex
    preempt,      \* PREEMPT nesting count of every context
    detached,     \* number of Blocker::detach calls
    ch_queue,     \* Channel: the packets sent and not yet received
    ch_ret,       \* what the last chan_recv returned
    ch_sent,      \* the packets chan_send has accepted, in order
    ch_recvd,     \* the packets chan_recv has delivered, in order
    cs,           \* the last WaiterData::can_signal call: its inputs and its result
    rs,           \* a RunningState word and the constructor argument that made it
    sm,           \* a task's typestate objects, its tid, ret_cell and CTX_DROPPER
    su,           \* a suspended task, its SuspendTokens and their wait object
    rpc           \* a sync RPC Server: stop flag, channel and the last results

eventVars == <<signal, waiters>>
obsVars == <<notified, canceled, unwaited, got_signal, at_wait, established, lin>>
localVars == <<pc, arg, l_clear, l_set, l_prev, l_signal, l_taken>>
taskVars == <<status, task_state, run_queue>>
dispVars == <<d_kind, d_cap, d_next_key, d_regs, d_ready, d_signaled, d_lost, d_fired,
              d_popped, d_ret, e_signal, e_waiters, e_alive>>
chanVars == <<ch_queue, ch_ret, ch_sent, ch_recvd>>
auxVars == <<cs, rs, sm, su, rpc>>
baseVars == <<signal, waiters, waiter_data, used, notified, canceled, unwaited,
              got_signal, at_wait, established, lin, pc, arg, l_clear, l_set,
              l_prev, l_signal, l_taken, status, task_state, run_queue, timer, result,
              dispVars, o_features, d_features, o_alive, h_blocker, list_lock, preempt,
              detached, chanVars>>
sysVars == <<o_features, d_features, o_alive, h_blocker, list_lock, preempt,
             detached, chanVars, auxVars>>
coreVars == <<signal, waiters, waiter_data, used, notified, canceled, unwaited,
              got_signal, at_wait, established, lin, pc, arg, l_clear, l_set,
              l_prev, l_signal, l_taken, status, task_state, run_queue, timer, result,
              sysVars>>
vars == <<coreVars, dispVars>>

NoWaiter == "none"

Inc(n) == IF n < CallCap THEN n + 1 ELSE n

\* Number of occurrences of w in the sequence s
RECURSIVE Occ(_, _)
Occ(w, s) == IF s = <<>> THEN 0
             ELSE (IF Head(s) = w THEN 1 ELSE 0) + Occ(w, Tail(s))

RECURSIVE IncBy(_, _)
IncBy(n, k) == IF k = 0 THEN n ELSE IncBy(Inc(n), k - 1)

InListOf(ws, w) == \E i \in 1 .. Len(ws) : ws[i] = w
InList(w) == InListOf(waiters, w)

\* the match rule: desired & !signal == 0
Matches(wd, sig) == And(wd.signal, Not(sig)) = 0

\* can_signal with the registration-time check refusing every waiter
can_signal_never_on_wait(wd, sig, on_wait) ==
    IF on_wait THEN FALSE ELSE And(wd.signal, Not(sig)) = 0

\* can_signal without the trigger-mode test
can_signal_any_mode(wd, sig, on_wait) == And(wd.signal, Not(sig)) = 0

\* WaiterData::can_signal
can_signal(wd, sig, on_wait) ==
    IF on_wait /\ wd.trigger_mode = "Edge"
    THEN FALSE
    ELSE And(wd.signal, Not(sig)) = 0

\* new = (prev & !clear) | set
NewSignal(prev, clear, set) == Or(And(prev, Not(clear)), set)

\* a plain store in place of the exchange
CasAlways(p) == TRUE

\* compare_exchange_weak succeeds only when the word still holds prev
CasHolds(p) == signal = l_prev[p]

\* the fast-path test with its operands confused: prev & new == prev
FastPathPrev(prev, new) == And(prev, new) = prev

\* a notify that scans after every successful exchange
FastPathNever(prev, new) == FALSE

\* the condition under which a successful exchange returns without a scan
FastPath(prev, new) == And(prev, new) = new

\* retain with the closure's negation dropped
RetainedFired(ws, sig) ==
    LET Keep(w) == can_signal(waiter_data[w], sig, FALSE)
    IN SelectSeq(ws, Keep)

\* the waiters that `retain` keeps, in order
Retained(ws, sig) ==
    LET Keep(w) == ~can_signal(waiter_data[w], sig, FALSE)
    IN SelectSeq(ws, Keep)

\* the waiters whose try_on_notify returned true during the scan
Fired(ws, sig) ==
    LET Hit(w) == can_signal(waiter_data[w], sig, FALSE)
    IN SelectSeq(ws, Hit)

\* Vec::pop in place of swap_remove: drops the last element whatever pos is
swap_remove_last(s, pos) == SubSeq(s, 1, Len(s) - 1)

\* Vec::swap_remove(pos)
swap_remove(s, pos) ==
    LET n == Len(s)
    IN [i \in 1 .. (n - 1) |-> IF i = pos THEN s[n] ELSE s[i]]

\* iter().position(..), 0 for None
\* a search that never finds the waiter
position_none(s, w) == 0

position(s, w) ==
    IF \E i \in 1 .. Len(s) : s[i] = w
    THEN CHOOSE i \in 1 .. Len(s) : s[i] = w /\ \A j \in 1 .. (i - 1) : s[j] # w
    ELSE 0

\* what a Dispatcher syscall returned: its name, Ok or the error, and the key
\* with the values written through the canceled and result pointers
Ret(call, st, key, c, r) ==
    [call |-> call, status |-> st, key |-> key, canceled |-> c, result |-> r]

\* no Dispatcher has been created; the multiplexed Events are unsignaled
InitDisp ==
    /\ d_kind = "none"
    /\ d_cap = 0
    /\ d_next_key = 0
    /\ d_regs = <<>>
    /\ d_ready = <<>>
    /\ d_signaled = FALSE
    /\ d_lost = <<>>
    /\ d_fired = <<>>
    /\ d_popped = <<>>
    /\ d_ret = Ret("none", "none", 0, FALSE, 0)
    /\ e_signal = [e \in Events |-> 0]
    /\ e_waiters = [e \in Events |-> <<>>]
    /\ e_alive = [e \in Events |-> TRUE]

InitCommon ==
    /\ InitDisp
    /\ signal \in Signals
    /\ waiters = <<>>
    /\ used = [w \in AllWaiters |-> FALSE]
    /\ notified = [w \in AllWaiters |-> 0]
    /\ canceled = [w \in AllWaiters |-> 0]
    /\ unwaited = [w \in AllWaiters |-> 0]
    /\ got_signal = [w \in AllWaiters |-> 0]
    /\ at_wait = [w \in AllWaiters |-> FALSE]
    /\ established = [w \in AllWaiters |-> FALSE]
    /\ lin = signal
    /\ pc = [p \in AllProcs |-> "idle"]
    /\ arg = [p \in AllProcs |-> NoWaiter]
    /\ l_clear = [p \in AllProcs |-> 0]
    /\ l_set = [p \in AllProcs |-> 0]
    /\ l_prev = [p \in AllProcs |-> 0]
    /\ l_signal = [p \in AllProcs |-> 0]
    /\ l_taken = [p \in AllProcs |-> <<>>]
    /\ status = [b \in Blockers |-> [matched |-> FALSE, signal |-> 0]]
    /\ timer = "unset"
    /\ result = [t \in Tasks |-> <<"none">>]

\* one Level and one Edge observer; the Blocker is level-triggered on SIG_READ
InitWaiterData ==
    waiter_data = [w \in AllWaiters |->
        CASE w = "w1" -> [trigger_mode |-> "Level", signal |-> SIG_GENERIC + SIG_READ]
          [] w = "w2" -> [trigger_mode |-> "Edge", signal |-> SIG_READ]
          [] OTHER -> [trigger_mode |-> "Level", signal |-> SIG_READ]]

Features == {"WAIT", "READ", "WRITE"}

Objects == Events \cup {"obj"}

NoPacket == [id |-> 0, bytes |-> <<>>, handles |-> <<>>]

\* the receiver's RawPacket after chan_recv, and the status of the call
RecvRet(st, pkt, hc, bc) ==
    [status |-> st, packet |-> pkt, handle_cap |-> hc, buffer_cap |-> bc]

\* every handle carries every feature, the Event is alive, no Blocker handle,
\* the list mutex is free and the channel is empty
\* Width of the modelled RunningState word (i128 in the source).
RsBits == 3
NOT_RUNNING_VALUE == 0
NEED_RESCHED_VALUE == -1

\* Option<T>: None is the empty sequence, Some(x) the sequence of x alone
None == <<>>
Some(x) == <<x>>

\* no call of WaiterData::can_signal has been made
NoCall == [called |-> FALSE, wd |-> [trigger_mode |-> "Level", signal |-> 0], signal |-> 0,
           on_wait |-> FALSE, ret |-> FALSE]

\* the i128 v as the bits of the union, two's complement
Word(v) == v % (2 ^ RsBits)

\* RunningState::NOT_RUNNING and RunningState::NEED_RESCHED
NOT_RUNNING == [bits |-> Word(NOT_RUNNING_VALUE), arg |-> None]
NEED_RESCHED == [bits |-> Word(NEED_RESCHED_VALUE), arg |-> None]

\* no task object exists: Init::new has not been called
NoTask == [init |-> None, ready |-> None, blocked |-> None, exit_pc |-> "none",
           retval |-> 0, tid_live |-> FALSE, ret_cell |-> None, joined |-> None,
           dropper |-> <<>>, freed |-> <<>>, born |-> None, call |-> None]

\* no SuspendToken exists, the target task runs without a pending signal
MaxTokens == 2
TokenIds == 1 .. MaxTokens
NoSuspend == [signal |-> None, tokens |-> [k \in TokenIds |-> "none"], target |-> "running",
              waiting |-> 0, notifies |-> [k \in TokenIds |-> 0]]

\* Server::new: the stop flag is clear
ServerNew == [stop |-> FALSE, it_pc |-> "idle", se_pc |-> "idle", se_close |-> FALSE,
              next_ret |-> "none", send_ret |-> "none", peer |-> "open", last |-> "none",
              res |-> "none"]

InitAux ==
    /\ cs = NoCall
    /\ rs = NOT_RUNNING
    /\ sm = NoTask
    /\ su = NoSuspend
    /\ rpc = ServerNew

InitSys ==
    /\ o_features = [o \in Objects |-> Features]
    /\ d_features = Features
    /\ o_alive = TRUE
    /\ h_blocker = "none"
    /\ list_lock = "none"
    /\ preempt = [p \in AllProcs |-> 0]
    /\ detached = 0
    /\ ch_queue = <<>>
    /\ ch_ret = RecvRet("none", NoPacket, 0, 0)
    /\ ch_sent = <<>>
    /\ ch_recvd = <<>>
    /\ InitAux

\* the tasks already run: each is Ready and owns its run-queue entry
Init ==
    /\ InitCommon
    /\ InitSys
    /\ InitWaiterData
    /\ task_state = [t \in Tasks |-> "Ready"]
    /\ run_queue = [t \in Tasks |-> 1]

\* Init::new: the tasks are constructed and not yet pushed to the scheduler
InitTask ==
    /\ InitCommon
    /\ InitSys
    /\ InitWaiterData
    /\ task_state = [t \in Tasks |-> "Init"]
    /\ run_queue = [t \in Tasks |-> 0]

\* a check that tests the Event before the capability
wait_check_pipe_first(fs, alive) ==
    IF ~alive THEN "EPIPE"
    ELSE IF "WAIT" \notin fs THEN "EPERM"
    ELSE "Ok"

\* obj_wait lines 184-187, obj_await lines 206-209: the WAIT feature, then the
\* upgrade of the weak Event reference
wait_check(fs, alive) ==
    IF "WAIT" \notin fs THEN "EPERM"
    ELSE IF ~alive THEN "EPIPE"
    ELSE "Ok"

\* a registration check that ignores the Dispatcher's features
push_check_no_write(ofs, dfs, alive) == wait_check(ofs, alive)

\* obj_await2 lines 253-259, disp_push lines 320-326: WAIT on the object,
\* WRITE on the Dispatcher, then the upgrade
push_check(ofs, dfs, alive) ==
    IF "WAIT" \notin ofs THEN "EPERM"
    ELSE IF "WRITE" \notin dfs THEN "EPERM"
    ELSE IF ~alive THEN "EPIPE"
    ELSE "Ok"

\* obj_awend2 lines 278-280, disp_pop lines 350-352: READ on the Dispatcher
pop_check(dfs) == IF "READ" \notin dfs THEN "EPERM" ELSE "Ok"

\* return to the caller, which goes on at `next`: the locals of the call are dead
Return(p, next) ==
    /\ pc' = [pc EXCEPT ![p] = next]
    /\ arg' = [arg EXCEPT ![p] = NoWaiter]
    /\ l_clear' = [l_clear EXCEPT ![p] = 0]
    /\ l_set' = [l_set EXCEPT ![p] = 0]
    /\ l_prev' = [l_prev EXCEPT ![p] = 0]
    /\ l_signal' = [l_signal EXCEPT ![p] = 0]
    /\ l_taken' = [l_taken EXCEPT ![p] = <<>>]

\* a block that leaves the run-queue entry behind
block_keep_entry(t) ==
    /\ task_state' = [task_state EXCEPT ![t] = "Blocked"]
    /\ UNCHANGED run_queue

\* Ready::block: the running task gives up its run-queue entry
block(t) ==
    /\ task_state' = [task_state EXCEPT ![t] = "Blocked"]
    /\ run_queue' = [run_queue EXCEPT ![t] = @ - 1]

\* a wake that leaves the task Blocked
into_ready_stay(ws) == UNCHANGED <<task_state, run_queue>>

\* <Blocked as IntoReady>::into_ready followed by the enqueue, once per
\* occurrence of the Blocker of a parked task in ws
into_ready(ws) ==
    /\ task_state' = [t \in Tasks |->
           IF Occ(BlockerOf(t), ws) > 0 /\ pc[t] = "parked" THEN "Ready" ELSE task_state[t]]
    /\ run_queue' = [t \in Tasks |->
           IF pc[t] = "parked" THEN IncBy(run_queue[t], Occ(BlockerOf(t), ws))
           ELSE run_queue[t]]

\* the wake callback of the Blockers in ws: a parked owner goes Blocked -> Ready
\* and gets a run-queue entry; an owner that has not parked yet is left alone
wake(ws) == into_ready(ws)

\* Waiter::on_notify of the waiters in ws, each with sig
on_notify(ws, sig) ==
    /\ notified' = [w \in AllWaiters |-> IncBy(notified[w], Occ(w, ws))]
    /\ got_signal' = [w \in AllWaiters |-> IF Occ(w, ws) > 0 THEN sig ELSE got_signal[w]]
    /\ status' = [b \in Blockers |->
           IF Occ(b, ws) > 0 THEN [matched |-> TRUE, signal |-> sig] ELSE status[b]]
    /\ wake(ws)

\* Waiter::on_cancel of w with sig
on_cancel(w, sig) ==
    /\ canceled' = [canceled EXCEPT ![w] = Inc(@)]
    /\ got_signal' = [got_signal EXCEPT ![w] = sig]
    /\ status' = [b \in Blockers |->
           IF b = w THEN [matched |-> FALSE, signal |-> sig] ELSE status[b]]
    /\ wake(<<w>>)

\* Event::wait_impl, line 56: load the signal
wait_impl_load(p, w) ==
    /\ pc[p] = (IF p \in Tasks THEN "blocker_new" ELSE "idle")
    /\ ~used[w]
    /\ used' = [used EXCEPT ![w] = TRUE]
    /\ pc' = [pc EXCEPT ![p] = "wait"]
    /\ arg' = [arg EXCEPT ![p] = w]
    /\ l_signal' = [l_signal EXCEPT ![p] = signal]
    /\ UNCHANGED <<eventVars, obsVars, taskVars, waiter_data, l_clear, l_set, l_prev,
                   l_taken, timer, result>>
    /\ UNCHANGED <<dispVars, sysVars>>

\* Event::wait_impl, lines 57-60: try_on_notify, else push under the lock
wait_impl_register(p) ==
    /\ pc[p] = "wait"
    /\ IF can_signal(waiter_data[arg[p]], l_signal[p], TRUE)
       THEN /\ on_notify(<<arg[p]>>, l_signal[p])
            /\ at_wait' = [at_wait EXCEPT ![arg[p]] = TRUE]
            /\ UNCHANGED waiters
       ELSE /\ waiters' = Append(waiters, arg[p])
            /\ UNCHANGED <<notified, got_signal, at_wait, taskVars>>
    /\ Return(p, IF p \notin Tasks THEN "idle"
                 ELSE IF h_blocker = "new" THEN "await_insert"
                 ELSE "blocker_wait")
    /\ UNCHANGED <<signal, waiter_data, used, canceled, unwaited, established, lin,
                   timer, result>>
    /\ UNCHANGED <<dispVars, sysVars>>

\* Event::unwait, line 64
unwait_load(p, w) ==
    /\ pc[p] = (IF p = Timer THEN "timer_fired" ELSE "idle")
    /\ pc' = [pc EXCEPT ![p] = "unwait"]
    /\ arg' = [arg EXCEPT ![p] = w]
    /\ l_signal' = [l_signal EXCEPT ![p] = IF p = Timer THEN signal ELSE 0]
    /\ UNCHANGED <<eventVars, obsVars, taskVars, waiter_data, used, l_clear, l_set,
                   l_prev, l_taken, timer, result>>
    /\ UNCHANGED <<dispVars, sysVars>>

\* Event::unwait, lines 65-80: position + swap_remove under the lock
unwait_remove(p) ==
    /\ pc[p] = "unwait"
    /\ LET pos == position(waiters, arg[p])
       IN IF pos # 0
          THEN /\ waiters' = swap_remove(waiters, pos)
               /\ unwaited' = [unwaited EXCEPT ![arg[p]] = Inc(@)]
               /\ Return(p, IF p = Timer THEN "timer_wake" ELSE "idle")
          ELSE /\ UNCHANGED <<waiters, unwaited>>
               /\ Return(p, "idle")
    /\ UNCHANGED <<signal, waiter_data, used, notified, canceled, got_signal, at_wait,
                   established, lin, taskVars, timer, result>>
    /\ UNCHANGED <<dispVars, sysVars>>

\* Event::cancel, line 84
cancel_load(p) ==
    /\ pc[p] = "idle"
    /\ pc' = [pc EXCEPT ![p] = "cancel_take"]
    /\ l_signal' = [l_signal EXCEPT ![p] = signal]
    /\ UNCHANGED <<eventVars, obsVars, taskVars, waiter_data, used, arg, l_clear, l_set,
                   l_prev, l_taken, timer, result>>
    /\ UNCHANGED <<dispVars, sysVars>>

\* cancel cloning the list instead of taking it
cancel_take_clone(p) ==
    /\ pc[p] = "cancel_take"
    /\ UNCHANGED waiters
    /\ IF waiters = <<>>
       THEN Return(p, "idle")
       ELSE /\ pc' = [pc EXCEPT ![p] = "cancel_call"]
            /\ l_taken' = [l_taken EXCEPT ![p] = waiters]
            /\ UNCHANGED <<arg, l_clear, l_set, l_prev, l_signal>>
    /\ UNCHANGED <<signal, obsVars, taskVars, waiter_data, used, timer, result>>
    /\ UNCHANGED <<dispVars, sysVars>>

\* Event::cancel, line 86: mem::take of the list under the lock
cancel_take(p) ==
    /\ pc[p] = "cancel_take"
    /\ waiters' = <<>>
    /\ IF waiters = <<>>
       THEN Return(p, "idle")
       ELSE /\ pc' = [pc EXCEPT ![p] = "cancel_call"]
            /\ l_taken' = [l_taken EXCEPT ![p] = waiters]
            /\ UNCHANGED <<arg, l_clear, l_set, l_prev, l_signal>>
    /\ UNCHANGED <<signal, obsVars, taskVars, waiter_data, used, timer, result>>
    /\ UNCHANGED <<dispVars, sysVars>>

\* Event::cancel, lines 87-89: one iteration of the loop over the taken list
cancel_call(p) ==
    /\ pc[p] = "cancel_call"
    /\ on_cancel(Head(l_taken[p]), l_signal[p])
    /\ IF Tail(l_taken[p]) = <<>>
       THEN Return(p, "idle")
       ELSE /\ l_taken' = [l_taken EXCEPT ![p] = Tail(@)]
            /\ UNCHANGED <<pc, arg, l_clear, l_set, l_prev, l_signal>>
    /\ UNCHANGED <<eventVars, waiter_data, used, notified, unwaited, at_wait,
                   established, lin, timer, result>>
    /\ UNCHANGED <<dispVars, sysVars>>

\* Event::notify_impl, lines 99-103: load prev, compute new, return if equal
notify_load(p, clear, set) ==
    LET new == NewSignal(signal, clear, set)
    IN IF signal = new
       THEN /\ Return(p, "idle")
            /\ lin' = NewSignal(lin, clear, set)
       ELSE /\ pc' = [pc EXCEPT ![p] = "notify_cas"]
            /\ l_clear' = [l_clear EXCEPT ![p] = clear]
            /\ l_set' = [l_set EXCEPT ![p] = set]
            /\ l_prev' = [l_prev EXCEPT ![p] = signal]
            /\ l_signal' = [l_signal EXCEPT ![p] = new]
            /\ UNCHANGED <<arg, l_taken, lin>>

\* a CPU calls notify(clear, set): first pass through the loop head
notify_impl_call(p, clear, set) ==
    /\ pc[p] = "idle"
    /\ notify_load(p, clear, set)
    /\ UNCHANGED <<eventVars, taskVars, waiter_data, used, notified, canceled, unwaited,
                   got_signal, at_wait, established, timer, result>>
    /\ UNCHANGED <<dispVars, sysVars>>

\* the loop head again after a failed exchange
notify_impl_retry(p) ==
    /\ pc[p] = "notify_load"
    /\ notify_load(p, l_clear[p], l_set[p])
    /\ UNCHANGED <<eventVars, taskVars, waiter_data, used, notified, canceled, unwaited,
                   got_signal, at_wait, established, timer, result>>
    /\ UNCHANGED <<dispVars, sysVars>>

\* Event::notify_impl, lines 104-110: the exchange succeeds
notify_impl_cas_ok(p) ==
    /\ pc[p] = "notify_cas"
    /\ CasHolds(p)
    /\ signal' = l_signal[p]
    /\ lin' = NewSignal(lin, l_clear[p], l_set[p])
    /\ established' = [w \in AllWaiters |->
           \/ established[w]
           \/ /\ InList(w)
              /\ waiter_data[w].trigger_mode = "Edge"
              /\ ~Matches(waiter_data[w], signal)
              /\ Matches(waiter_data[w], l_signal[p])]
    /\ IF FastPath(l_prev[p], l_signal[p])
       THEN Return(p, "idle")
       ELSE /\ pc' = [pc EXCEPT ![p] = "notify_scan"]
            /\ l_clear' = [l_clear EXCEPT ![p] = 0]
            /\ l_set' = [l_set EXCEPT ![p] = 0]
            /\ l_prev' = [l_prev EXCEPT ![p] = 0]
            /\ UNCHANGED <<arg, l_signal, l_taken>>
    /\ UNCHANGED <<waiters, taskVars, waiter_data, used, notified, canceled, unwaited,
                   got_signal, at_wait, timer, result>>
    /\ UNCHANGED <<dispVars, sysVars>>

\* Event::notify_impl, line 111: the exchange fails (the word changed, or the
\* weak exchange failed spuriously) and the loop spins
notify_impl_cas_fail(p) ==
    /\ pc[p] = "notify_cas"
    /\ pc' = [pc EXCEPT ![p] = "notify_load"]
    /\ l_prev' = [l_prev EXCEPT ![p] = 0]
    /\ l_signal' = [l_signal EXCEPT ![p] = 0]
    /\ UNCHANGED <<eventVars, obsVars, taskVars, waiter_data, used, arg, l_clear, l_set,
                   l_taken, timer, result>>
    /\ UNCHANGED <<dispVars, sysVars>>

\* a scan that reads the signal again instead of using the value it wrote
notify_impl_retain_reload(p) ==
    /\ pc[p] = "notify_scan"
    /\ waiters' = Retained(waiters, signal)
    /\ on_notify(Fired(waiters, signal), signal)
    /\ Return(p, "idle")
    /\ UNCHANGED <<signal, waiter_data, used, canceled, unwaited, at_wait, established,
                   lin, timer, result>>
    /\ UNCHANGED <<dispVars, sysVars>>

\* Event::notify_impl, lines 114-117: retain under the lock
notify_impl_retain(p) ==
    /\ pc[p] = "notify_scan"
    /\ waiters' = Retained(waiters, l_signal[p])
    /\ on_notify(Fired(waiters, l_signal[p]), l_signal[p])
    /\ Return(p, "idle")
    /\ UNCHANGED <<signal, waiter_data, used, canceled, unwaited, at_wait, established,
                   lin, timer, result>>
    /\ UNCHANGED <<dispVars, sysVars>>

Next ==
    \/ \E p \in Procs, w \in Waiters : wait_impl_load(p, w)
    \/ \E p \in Procs : wait_impl_register(p)
    \/ \E p \in Procs, w \in Waiters : unwait_load(p, w)
    \/ \E p \in Procs : unwait_remove(p)
    \/ \E p \in Procs : cancel_load(p)
    \/ \E p \in Procs : cancel_take(p)
    \/ \E p \in Procs : cancel_call(p)
    \/ \E p \in Procs, a \in NotifyArgs : notify_impl_call(p, a[1], a[2])
    \/ \E p \in Procs : notify_impl_retry(p)
    \/ \E p \in Procs : notify_impl_cas_ok(p)
    \/ \E p \in Procs : notify_impl_cas_fail(p)
    \/ \E p \in Procs : notify_impl_retain(p)

Spec == Init /\ [][Next]_vars

(***************************************************************************)
(* obj_wait: a task blocks on the Event through a Blocker, with a timeout  *)
(***************************************************************************)

Timeouts == {"finite", "forever"}

\* obj_wait, lines 182-189: the call with its timeout, up to Blocker::new
obj_wait_call(t, tmo) ==
    /\ pc[t] = "idle"
    /\ task_state[t] = "Ready"
    /\ result[t] = <<"none">>
    /\ timer = "unset"
    /\ h_blocker = "none"
    /\ LET st == wait_check(o_features["obj"], o_alive)
       IN IF st # "Ok"
          THEN /\ result' = [result EXCEPT ![t] = <<st>>]
               /\ pc' = [pc EXCEPT ![t] = "done"]
               /\ UNCHANGED timer
          ELSE /\ timer' = tmo
               /\ pc' = [pc EXCEPT ![t] = "blocker_new"]
               /\ UNCHANGED result
    /\ UNCHANGED <<eventVars, obsVars, taskVars, waiter_data, used, arg, l_clear, l_set,
                   l_prev, l_signal, l_taken>>
    /\ UNCHANGED <<dispVars, sysVars>>

\* Blocker::wait: return at once when the Blocker has matched, else park the
\* task and arm the timer
blocker_wait(t) ==
    /\ pc[t] = "blocker_wait"
    /\ IF status[BlockerOf(t)].matched
       THEN /\ pc' = [pc EXCEPT ![t] = "detach"]
            /\ UNCHANGED <<task_state, run_queue, timer>>
       ELSE /\ pc' = [pc EXCEPT ![t] = "parked"]
            /\ block(t)
            /\ timer' = IF timer = "finite" THEN "armed" ELSE timer
    /\ UNCHANGED <<eventVars, obsVars, status, waiter_data, used, arg, l_clear, l_set,
                   l_prev, l_signal, l_taken, result>>
    /\ UNCHANGED <<dispVars, sysVars>>

\* obj_wait line 192, obj_awend line 222: Blocker::wait returns an error and
\* `?` returns it to the caller at once
blocker_wait_err(t) ==
    /\ pc[t] = "blocker_wait"
    /\ result' = [result EXCEPT ![t] = <<"Err">>]
    /\ pc' = [pc EXCEPT ![t] = "done"]
    /\ UNCHANGED <<eventVars, obsVars, taskVars, waiter_data, used, arg, l_clear, l_set,
                   l_prev, l_signal, l_taken, timer>>
    /\ UNCHANGED <<dispVars, sysVars>>

\* the timeout expires in the timer context
timer_fire ==
    /\ timer = "armed"
    /\ pc[Timer] = "idle"
    /\ timer' = "fired"
    /\ pc' = [pc EXCEPT ![Timer] = "timer_fired"]
    /\ UNCHANGED <<eventVars, obsVars, taskVars, waiter_data, used, arg, l_clear, l_set,
                   l_prev, l_signal, l_taken, result>>
    /\ UNCHANGED <<dispVars, sysVars>>

\* the timer took the Blocker off the list: it wakes the task
timer_wake ==
    /\ pc[Timer] = "timer_wake"
    /\ wake(<<BlockerOf("t1")>>)
    /\ pc' = [pc EXCEPT ![Timer] = "idle"]
    /\ UNCHANGED <<eventVars, obsVars, status, waiter_data, used, arg, l_clear, l_set,
                   l_prev, l_signal, l_taken, timer, result>>
    /\ UNCHANGED <<dispVars, sysVars>>

\* the scheduler runs the woken task again; a timer still armed is disarmed
resume(t) ==
    /\ pc[t] = "parked"
    /\ task_state[t] = "Ready"
    /\ pc' = [pc EXCEPT ![t] = "detach"]
    /\ timer' = IF timer = "armed" THEN "disarmed" ELSE timer
    /\ UNCHANGED <<eventVars, obsVars, taskVars, waiter_data, used, arg, l_clear, l_set,
                   l_prev, l_signal, l_taken, result>>
    /\ UNCHANGED <<dispVars, sysVars>>

\* obj_wait, lines 194-198: detach and turn the outcome into the result
obj_wait_detach(t) ==
    /\ pc[t] = "detach"
    /\ h_blocker = "none"
    /\ detached' = Inc(detached)
    /\ result' = [result EXCEPT ![t] =
           IF status[BlockerOf(t)].matched
           THEN <<"Ok", status[BlockerOf(t)].signal>>
           ELSE <<"ETIME">>]
    /\ pc' = [pc EXCEPT ![t] = "done"]
    /\ UNCHANGED <<eventVars, obsVars, taskVars, waiter_data, used, arg, l_clear, l_set,
                   l_prev, l_signal, l_taken, timer>>
    /\ UNCHANGED <<dispVars, o_features, d_features, o_alive, h_blocker, list_lock,
                   preempt, chanVars, auxVars>>

\* obj_await, lines 203-213: the checks, up to Blocker::new
obj_await(t) ==
    /\ pc[t] = "idle"
    /\ task_state[t] = "Ready"
    /\ result[t] = <<"none">>
    /\ timer = "unset"
    /\ h_blocker = "none"
    /\ LET st == wait_check(o_features["obj"], o_alive)
       IN IF st # "Ok"
          THEN /\ result' = [result EXCEPT ![t] = <<st>>]
               /\ pc' = [pc EXCEPT ![t] = "done"]
               /\ UNCHANGED h_blocker
          ELSE /\ h_blocker' = "new"
               /\ pc' = [pc EXCEPT ![t] = "blocker_new"]
               /\ UNCHANGED result
    /\ UNCHANGED <<eventVars, obsVars, taskVars, waiter_data, used, arg, l_clear, l_set,
                   l_prev, l_signal, l_taken, timer>>
    /\ UNCHANGED <<dispVars, o_features, d_features, o_alive, list_lock, preempt,
                   detached, chanVars, auxVars>>

\* obj_await, line 212: insert_raw puts the Blocker into the handle table
obj_await_insert(t) ==
    /\ pc[t] = "await_insert"
    /\ h_blocker' = "open"
    /\ pc' = [pc EXCEPT ![t] = "idle"]
    /\ UNCHANGED <<eventVars, obsVars, taskVars, waiter_data, used, arg, l_clear, l_set,
                   l_prev, l_signal, l_taken, timer, result>>
    /\ UNCHANGED <<dispVars, o_features, d_features, o_alive, list_lock, preempt,
                   detached, chanVars, auxVars>>

\* HandleMap::get::<Blocker>: the handle is in the table
handle_found(h) == h = "open"

\* obj_awend, lines 218-222: look the handle up, then Blocker::wait
obj_awend_call(t, tmo) ==
    /\ pc[t] \in {"idle", "done"}
    /\ task_state[t] = "Ready"
    /\ IF handle_found(h_blocker)
       THEN /\ timer' = IF timer = "unset" THEN tmo ELSE timer
            /\ pc' = [pc EXCEPT ![t] = "blocker_wait"]
            /\ UNCHANGED result
       ELSE /\ result' = [result EXCEPT ![t] = <<"ENOENT">>]
            /\ pc' = [pc EXCEPT ![t] = "done"]
            /\ UNCHANGED timer
    /\ UNCHANGED <<eventVars, obsVars, taskVars, waiter_data, used, arg, l_clear, l_set,
                   l_prev, l_signal, l_taken>>
    /\ UNCHANGED <<dispVars, sysVars>>

\* an obj_awend that leaves the handle in the table
obj_awend_detach_keep(t) ==
    /\ pc[t] = "detach"
    /\ h_blocker # "none"
    /\ detached' = Inc(detached)
    /\ result' = [result EXCEPT ![t] =
           IF status[BlockerOf(t)].matched
           THEN <<"Ok", status[BlockerOf(t)].signal>>
           ELSE <<"ETIME">>]
    /\ pc' = [pc EXCEPT ![t] = "done"]
    /\ UNCHANGED <<eventVars, obsVars, taskVars, waiter_data, used, arg, l_clear, l_set,
                   l_prev, l_signal, l_taken, timer>>
    /\ UNCHANGED <<dispVars, o_features, d_features, o_alive, h_blocker, list_lock,
                   preempt, chanVars, auxVars>>

\* obj_awend, lines 224-231: detach, remove the handle, turn the outcome
\* into the result
obj_awend_detach(t) ==
    /\ pc[t] = "detach"
    /\ h_blocker # "none"
    /\ detached' = Inc(detached)
    /\ h_blocker' = "removed"
    /\ result' = [result EXCEPT ![t] =
           IF status[BlockerOf(t)].matched
           THEN <<"Ok", status[BlockerOf(t)].signal>>
           ELSE <<"ETIME">>]
    /\ pc' = [pc EXCEPT ![t] = "done"]
    /\ UNCHANGED <<eventVars, obsVars, taskVars, waiter_data, used, arg, l_clear, l_set,
                   l_prev, l_signal, l_taken, timer>>
    /\ UNCHANGED <<dispVars, o_features, d_features, o_alive, list_lock, preempt,
                   chanVars, auxVars>>

\* once obj_wait has returned, a CPU calls Event::unwait on its Blocker
unwait_returned(p, t) ==
    /\ pc[t] = "done"
    /\ unwait_load(p, BlockerOf(t))

NextBlocker ==
    \/ \E t \in Tasks, tmo \in Timeouts : obj_wait_call(t, tmo)
    \/ \E t \in Tasks : wait_impl_load(t, BlockerOf(t))
    \/ \E t \in Tasks : wait_impl_register(t)
    \/ \E t \in Tasks : blocker_wait(t)
    \/ \E t \in Tasks : resume(t)
    \/ \E t \in Tasks : obj_wait_detach(t)
    \/ timer_fire
    \/ unwait_load(Timer, BlockerOf("t1"))
    \/ unwait_remove(Timer)
    \/ timer_wake
    \/ \E p \in Procs, a \in NotifyArgs : notify_impl_call(p, a[1], a[2])
    \/ \E p \in Procs : notify_impl_retry(p)
    \/ \E p \in Procs : notify_impl_cas_ok(p)
    \/ \E p \in Procs : notify_impl_cas_fail(p)
    \/ \E p \in Procs : notify_impl_retain(p)
    \/ \E p \in Procs, t \in Tasks : unwait_returned(p, t)
    \/ \E p \in Procs : unwait_remove(p)

SpecBlocker == Init /\ [][NextBlocker]_vars

\* the steps of the task inside obj_wait, and of the timer context
TaskStep ==
    \E t \in Tasks :
        \/ wait_impl_load(t, BlockerOf(t))
        \/ wait_impl_register(t)
        \/ blocker_wait(t)
        \/ resume(t)
        \/ obj_wait_detach(t)

TimerStep ==
    \/ timer_fire
    \/ unwait_load(Timer, BlockerOf("t1"))
    \/ unwait_remove(Timer)
    \/ timer_wake

\* a Ready task is scheduled again and an armed timer expires
SpecBlockerLive == SpecBlocker /\ WF_vars(TaskStep) /\ WF_vars(TimerStep)

(***************************************************************************)
(* The task lifecycle: Init, Ready, Blocked, Exit                          *)
(***************************************************************************)

\* task_fn, line 92: SCHED.push of the new task, <Init as IntoReady>::into_ready
task_push(t) ==
    /\ task_state[t] = "Init"
    /\ task_state' = [task_state EXCEPT ![t] = "Ready"]
    /\ run_queue' = [run_queue EXCEPT ![t] = Inc(@)]
    /\ UNCHANGED <<eventVars, obsVars, localVars, status, waiter_data, used, timer, result>>
    /\ UNCHANGED <<dispVars, sysVars>>

\* Ready::exit: the task leaves the run queue for good
exit(t) ==
    /\ task_state' = [task_state EXCEPT ![t] = "Exit"]
    /\ run_queue' = [run_queue EXCEPT ![t] = @ - 1]

\* an exit that does not require the caller to be the running task
task_exit_any(t) ==
    /\ pc[t] # "exited"
    /\ exit(t)
    /\ pc' = [pc EXCEPT ![t] = "exited"]
    /\ UNCHANGED <<eventVars, obsVars, status, waiter_data, used, arg, l_clear, l_set,
                   l_prev, l_signal, l_taken, timer, result>>
    /\ UNCHANGED <<dispVars, sysVars>>

\* task_exit: SCHED.exit_current, the running task calls Ready::exit
task_exit(t) ==
    /\ pc[t] \in {"idle", "done"}
    /\ task_state[t] = "Ready"
    /\ exit(t)
    /\ pc' = [pc EXCEPT ![t] = "exited"]
    /\ UNCHANGED <<eventVars, obsVars, status, waiter_data, used, arg, l_clear, l_set,
                   l_prev, l_signal, l_taken, timer, result>>
    /\ UNCHANGED <<dispVars, sysVars>>

\* task_sleep, line 52: SCHED.block_current with a duration and no wait object
task_sleep(t) ==
    /\ pc[t] = "idle"
    /\ task_state[t] = "Ready"
    /\ block(t)
    /\ pc' = [pc EXCEPT ![t] = "sleep"]
    /\ UNCHANGED <<eventVars, obsVars, status, waiter_data, used, arg, l_clear, l_set,
                   l_prev, l_signal, l_taken, timer, result>>
    /\ UNCHANGED <<dispVars, sysVars>>

\* the sleep expires: <Blocked as IntoReady>::into_ready and the enqueue
sleep_wake(t) ==
    /\ pc[t] = "sleep"
    /\ task_state[t] = "Blocked"
    /\ task_state' = [task_state EXCEPT ![t] = "Ready"]
    /\ run_queue' = [run_queue EXCEPT ![t] = Inc(@)]
    /\ pc' = [pc EXCEPT ![t] = "slept"]
    /\ UNCHANGED <<eventVars, obsVars, status, waiter_data, used, arg, l_clear, l_set,
                   l_prev, l_signal, l_taken, timer, result>>
    /\ UNCHANGED <<dispVars, sysVars>>

\* the scheduler runs the task again and task_sleep returns
sleep_resume(t) ==
    /\ pc[t] = "slept"
    /\ pc' = [pc EXCEPT ![t] = "idle"]
    /\ UNCHANGED <<eventVars, obsVars, taskVars, waiter_data, used, arg, l_clear, l_set,
                   l_prev, l_signal, l_taken, timer, result>>
    /\ UNCHANGED <<dispVars, sysVars>>

NextTask ==
    \/ \E t \in Tasks : task_push(t)
    \/ \E t \in Tasks : task_exit(t)
    \/ \E t \in Tasks : task_sleep(t)
    \/ \E t \in Tasks : sleep_wake(t)
    \/ \E t \in Tasks : sleep_resume(t)
    \/ \E t \in Tasks, tmo \in Timeouts : obj_wait_call(t, tmo)
    \/ \E t \in Tasks : wait_impl_load(t, BlockerOf(t))
    \/ \E t \in Tasks : wait_impl_register(t)
    \/ \E t \in Tasks : blocker_wait(t)
    \/ \E t \in Tasks : resume(t)
    \/ \E t \in Tasks : obj_wait_detach(t)
    \/ timer_fire
    \/ unwait_load(Timer, BlockerOf("t1"))
    \/ unwait_remove(Timer)
    \/ timer_wake
    \/ \E p \in Procs, a \in NotifyArgs : notify_impl_call(p, a[1], a[2])
    \/ \E p \in Procs : notify_impl_retry(p)
    \/ \E p \in Procs : notify_impl_cas_ok(p)
    \/ \E p \in Procs : notify_impl_cas_fail(p)
    \/ \E p \in Procs : notify_impl_retain(p)

SpecTask == InitTask /\ [][NextTask]_vars

(***************************************************************************)
(* The Dispatcher: one task multiplexes several Events into a bounded      *)
(* ready queue. Every syscall and every notify runs as a whole.            *)
(***************************************************************************)

\* the largest capacity passed to disp_new2
MaxCap == 2

\* the (level_triggered, signal) arguments of the push that registers e: e2
\* is waited for edge-triggered, the others level-triggered
PushArgs(e) ==
    IF e = "e2" THEN {<<FALSE, SIG_READ>>} ELSE {<<TRUE, SIG_READ>>}

\* the (clear, set) arguments of the notifies on the multiplexed Events
EventNotifyArgs == {<<0, SIG_READ>>, <<SIG_READ, 0>>}

\* WaiterData::new as obj_await2 and disp_push call it
PushData(level, sig) ==
    [trigger_mode |-> IF level THEN "Level" ELSE "Edge", signal |-> sig]

\* a syscall that returns a constant in place of the key
PushReturnZero(key) == 0

\* Ok(disp.push(..)): the syscall returns the key push produced
PushReturn(key) == key

\* an empty pop reported as success
EmptyRetOk(call) == Ret(call, "Ok", 0, FALSE, 0)

\* disp.pop().ok_or(ENOENT): None becomes ENOENT, nothing is written out
EmptyRet(call) == Ret(call, "ENOENT", 0, FALSE, 0)

\* the registrations of the list ws that notify's retain keeps, in order
RetainedRegs(ws, sig) ==
    LET Keep(i) == ~can_signal(d_regs[i].wd, sig, FALSE)
    IN SelectSeq(ws, Keep)

\* the registrations of ws whose try_on_notify returned true, in order
FiredRegs(ws, sig) ==
    LET Hit(i) == can_signal(d_regs[i].wd, sig, FALSE)
    IN SelectSeq(ws, Hit)

Min(a, b) == IF a < b THEN a ELSE b

\* a queue that takes every notification
FitAll(fs) == fs

\* the notifications of fs the ready queue has room for
Fit(fs) == SubSeq(fs, 1, Min(Len(fs), d_cap - Len(d_ready)))

\* a full queue that does not record what it drops
DroppedNone(fs) == <<>>

\* the notifications of fs that find the ready queue full
Dropped(fs) == SubSeq(fs, Len(Fit(fs)) + 1, Len(fs))

\* the ready entry of registration i
Entry(regs, i, sig, c) ==
    [key |-> regs[i].key, reg |-> i, signal |-> sig, canceled |-> c]

\* the Dispatcher's Event stays signaled after a pop
SignaledAfterPopKeep(q) == TRUE

\* the Dispatcher's Event after a pop left q: cleared with the last entry
SignaledAfterPop(q) == q # <<>>

\* a pop that takes the newest entry
pop_index_newest(q) == Len(q)

\* Dispatcher::pop takes the oldest entry
pop_index(q) == 1

\* the Waiter callbacks of the registrations fs with sig: on_notify, or
\* on_cancel when c. Each enqueues a ready entry and signals the Dispatcher's
\* own Event, or is dropped and recorded as lost when the queue is full
dispatcher_fire(regs, fs, sig, c) ==
    /\ d_ready' = d_ready \o [j \in 1 .. Len(Fit(fs)) |-> Entry(regs, Fit(fs)[j], sig, c)]
    /\ d_lost' = d_lost \o Dropped(fs)
    /\ d_fired' = d_fired \o fs
    /\ d_signaled' = IF Fit(fs) # <<>> THEN TRUE ELSE d_signaled

\* disp_new: Dispatcher::new() with the capacity the implementation fixes
disp_new(capacity) ==
    /\ d_kind = "none"
    /\ d_kind' = "v1"
    /\ d_cap' = capacity
    /\ d_next_key' = 1
    /\ d_ret' = Ret("disp_new", "Ok", 0, FALSE, 0)
    /\ UNCHANGED <<d_regs, d_ready, d_signaled, d_lost, d_fired, d_popped, e_signal,
                   e_waiters, e_alive, coreVars>>

\* disp_new2: Dispatcher::new(capacity)
disp_new2(capacity) ==
    /\ d_kind = "none"
    /\ d_kind' = "v2"
    /\ d_cap' = capacity
    /\ d_next_key' = 1
    /\ d_ret' = Ret("disp_new2", "Ok", 0, FALSE, 0)
    /\ UNCHANGED <<d_regs, d_ready, d_signaled, d_lost, d_fired, d_popped, e_signal,
                   e_waiters, e_alive, coreVars>>

\* the body obj_await2 and disp_push share: EPIPE when the Event is gone,
\* else Dispatcher::push: take the next key, record the registration and
\* hand the entry to Event::wait, which fires it at once or lists it. The
\* task registers every Event once
dispatcher_push(call, e, wd) ==
    /\ \A i \in 1 .. Len(d_regs) : d_regs[i].event # e
    /\ IF push_check(o_features[e], d_features, e_alive[e]) # "Ok"
       THEN /\ d_ret' = Ret(call, push_check(o_features[e], d_features, e_alive[e]),
                            0, FALSE, 0)
            /\ UNCHANGED <<d_next_key, d_regs, d_ready, d_lost, d_fired, d_signaled,
                           e_waiters>>
       ELSE LET key == d_next_key
                regs == Append(d_regs, [key |-> key, returned |-> PushReturn(key),
                                        event |-> e, wd |-> wd])
                i == Len(regs)
            IN /\ d_regs' = regs
               /\ d_next_key' = key + 1
               /\ d_ret' = Ret(call, "Ok", PushReturn(key), FALSE, 0)
               /\ IF can_signal(wd, e_signal[e], TRUE)
                  THEN /\ dispatcher_fire(regs, <<i>>, e_signal[e], FALSE)
                       /\ UNCHANGED e_waiters
                  ELSE /\ e_waiters' = [e_waiters EXCEPT ![e] = Append(@, i)]
                       /\ UNCHANGED <<d_ready, d_lost, d_fired, d_signaled>>
    /\ UNCHANGED <<d_kind, d_cap, d_popped, e_signal, e_alive, coreVars>>

\* obj_await2: register the Event hdl with a Dispatcher made by disp_new
obj_await2(e, level, sig) ==
    /\ d_kind = "v1"
    /\ dispatcher_push("obj_await2", e, PushData(level, sig))

\* disp_push: register the Event hdl with a Dispatcher made by disp_new2
disp_push(e, level, sig) ==
    /\ d_kind = "v2"
    /\ dispatcher_push("disp_push", e, PushData(level, sig))

\* the body obj_awend2 and disp_pop share: Dispatcher::pop and its result
dispatcher_pop(call, with_result) ==
    /\ IF pop_check(d_features) # "Ok"
       THEN /\ d_ret' = Ret(call, pop_check(d_features), 0, FALSE, 0)
            /\ UNCHANGED <<d_ready, d_popped, d_signaled>>
       ELSE IF d_ready = <<>>
       THEN /\ d_ret' = EmptyRet(call)
            /\ UNCHANGED <<d_ready, d_popped, d_signaled>>
       ELSE LET k == pop_index(d_ready)
                x == d_ready[k]
                rest == SubSeq(d_ready, 1, k - 1) \o SubSeq(d_ready, k + 1, Len(d_ready))
            IN /\ d_ready' = rest
               /\ d_popped' = Append(d_popped, x)
               /\ d_signaled' = SignaledAfterPop(rest)
               /\ d_ret' = Ret(call, "Ok", x.key, x.canceled,
                               IF with_result THEN x.signal ELSE 0)
    /\ UNCHANGED <<d_kind, d_cap, d_next_key, d_regs, d_lost, d_fired, e_signal,
                   e_waiters, e_alive, coreVars>>

\* obj_awend2: pop from a Dispatcher made by disp_new, returns (key, canceled)
obj_awend2 ==
    /\ d_kind = "v1"
    /\ dispatcher_pop("obj_awend2", FALSE)

\* disp_pop: pop from a Dispatcher made by disp_new2, returns (canceled, key, result)
disp_pop ==
    /\ d_kind = "v2"
    /\ dispatcher_pop("disp_pop", TRUE)

\* Event::notify_impl on the multiplexed Event e, run as a whole
ev_notify(e, clear, set) ==
    /\ e_alive[e]
    /\ d_kind # "none"
    /\ LET prev == e_signal[e]
           new == NewSignal(prev, clear, set)
       IN /\ prev # new
          /\ e_signal' = [e_signal EXCEPT ![e] = new]
          /\ IF FastPath(prev, new)
             THEN UNCHANGED <<e_waiters, d_ready, d_lost, d_fired, d_signaled>>
             ELSE /\ e_waiters' = [e_waiters EXCEPT ![e] = RetainedRegs(@, new)]
                  /\ dispatcher_fire(d_regs, FiredRegs(e_waiters[e], new), new, FALSE)
    /\ UNCHANGED <<d_kind, d_cap, d_next_key, d_regs, d_popped, d_ret, e_alive, coreVars>>

\* a cancel that empties the list without calling on_cancel
ev_cancel_silent(e) ==
    /\ e_alive[e]
    /\ d_kind # "none"
    /\ e_alive' = [e_alive EXCEPT ![e] = FALSE]
    /\ e_waiters' = [e_waiters EXCEPT ![e] = <<>>]
    /\ UNCHANGED <<d_kind, d_cap, d_next_key, d_regs, d_popped, d_ret, e_signal, d_ready,
                   d_lost, d_fired, d_signaled, coreVars>>

\* the multiplexed Event e is destroyed: Event::cancel takes the list and calls
\* on_cancel on every registration in it
ev_cancel(e) ==
    /\ e_alive[e]
    /\ d_kind # "none"
    /\ e_alive' = [e_alive EXCEPT ![e] = FALSE]
    /\ e_waiters' = [e_waiters EXCEPT ![e] = <<>>]
    /\ dispatcher_fire(d_regs, e_waiters[e], e_signal[e], TRUE)
    /\ UNCHANGED <<d_kind, d_cap, d_next_key, d_regs, d_popped, d_ret, e_signal, coreVars>>

NextDisp ==
    \/ disp_new(MaxCap)
    \/ \E c \in 1 .. MaxCap : disp_new2(c)
    \/ \E e \in Events : \E a \in PushArgs(e) : obj_await2(e, a[1], a[2])
    \/ \E e \in Events : \E a \in PushArgs(e) : disp_push(e, a[1], a[2])
    \/ obj_awend2
    \/ disp_pop
    \/ \E e \in Events, a \in EventNotifyArgs : ev_notify(e, a[1], a[2])
    \/ \E e \in Events : ev_cancel(e)

\* the task runs and the Event of the earlier sections is idle
InitDispatcher ==
    /\ Init
    /\ signal = 0

SpecDisp == InitDispatcher /\ [][NextDisp]_vars

(***************************************************************************)
(* The waiter list mutex: PREEMPT.scope and waiters.lock() as steps           *)
(***************************************************************************)

\* what no Event operation touches
lockRest == <<o_features, d_features, o_alive, h_blocker, detached, chanVars, auxVars, dispVars,
              waiter_data, established, lin, timer, result>>

\* PREEMPT.scope entered: the position where the context spins for the mutex
LkSpin ==
    [lk_wait_enter |-> "lk_wait_spin", lk_unwait_enter |-> "lk_unwait_spin",
     lk_cancel_enter |-> "lk_cancel_spin", lk_notify_enter |-> "lk_notify_spin"]

\* the mutex acquired: the position inside the critical section
LkCs ==
    [lk_wait_spin |-> "lk_wait_cs", lk_unwait_spin |-> "lk_unwait_cs",
     lk_cancel_spin |-> "lk_cancel_cs", lk_notify_spin |-> "lk_notify_cs"]

LkExit == {"lk_wait_exit", "lk_unwait_exit", "lk_cancel_exit", "lk_notify_exit"}

LockNotifyArgs == {<<0, SIG_READ>>, <<SIG_READ, 0>>}

\* where the caller of Event::wait goes on: a task inside obj_wait reaches
\* Blocker::wait
AfterWait(p) == IF p \in Tasks THEN "blocker_wait" ELSE "idle"

\* Event::wait_impl, line 56: the load
lk_wait_call(p, w) ==
    /\ pc[p] = (IF p \in Tasks THEN "blocker_new" ELSE "idle")
    /\ ~used[w]
    /\ used' = [used EXCEPT ![w] = TRUE]
    /\ pc' = [pc EXCEPT ![p] = "lk_wait"]
    /\ arg' = [arg EXCEPT ![p] = w]
    /\ l_signal' = [l_signal EXCEPT ![p] = signal]
    /\ UNCHANGED <<eventVars, notified, canceled, unwaited, got_signal, at_wait, taskVars,
                   l_clear, l_set, l_prev, l_taken, list_lock, preempt, lockRest>>

\* a wait that pushes without PREEMPT.scope and without the mutex
lk_wait_try_unlocked(p) ==
    /\ pc[p] = "lk_wait"
    /\ IF can_signal(waiter_data[arg[p]], l_signal[p], TRUE)
       THEN /\ on_notify(<<arg[p]>>, l_signal[p])
            /\ at_wait' = [at_wait EXCEPT ![arg[p]] = TRUE]
            /\ UNCHANGED waiters
       ELSE /\ waiters' = Append(waiters, arg[p])
            /\ UNCHANGED <<notified, got_signal, at_wait, taskVars>>
    /\ Return(p, AfterWait(p))
    /\ UNCHANGED <<signal, used, canceled, unwaited, list_lock, preempt, lockRest>>

\* Event::wait_impl, lines 57-59: try_on_notify outside the mutex
lk_wait_try(p) ==
    /\ pc[p] = "lk_wait"
    /\ IF can_signal(waiter_data[arg[p]], l_signal[p], TRUE)
       THEN /\ on_notify(<<arg[p]>>, l_signal[p])
            /\ at_wait' = [at_wait EXCEPT ![arg[p]] = TRUE]
            /\ Return(p, AfterWait(p))
       ELSE /\ pc' = [pc EXCEPT ![p] = "lk_wait_enter"]
            /\ UNCHANGED <<notified, got_signal, at_wait, taskVars, arg, l_clear, l_set,
                           l_prev, l_signal, l_taken>>
    /\ UNCHANGED <<eventVars, used, canceled, unwaited, list_lock, preempt, lockRest>>

\* PREEMPT.scope, lines 60, 65, 86, 114: preemption is disabled
lk_scope_enter(p) ==
    /\ pc[p] \in DOMAIN LkSpin
    /\ preempt' = [preempt EXCEPT ![p] = @ + 1]
    /\ pc' = [pc EXCEPT ![p] = LkSpin[pc[p]]]
    /\ UNCHANGED <<eventVars, obsVars, taskVars, used, arg, l_clear, l_set, l_prev,
                   l_signal, l_taken, list_lock, lockRest>>

\* waiters.lock(), lines 60, 66, 86, 115: spin until the mutex is free
lk_lock(p) ==
    /\ pc[p] \in DOMAIN LkCs
    /\ list_lock = "none"
    /\ list_lock' = p
    /\ pc' = [pc EXCEPT ![p] = LkCs[pc[p]]]
    /\ UNCHANGED <<eventVars, obsVars, taskVars, used, arg, l_clear, l_set, l_prev,
                   l_signal, l_taken, preempt, lockRest>>

\* Event::wait_impl, line 60: push
lk_wait_push(p) ==
    /\ pc[p] = "lk_wait_cs"
    /\ waiters' = Append(waiters, arg[p])
    /\ pc' = [pc EXCEPT ![p] = "lk_wait_exit"]
    /\ UNCHANGED <<signal, obsVars, taskVars, used, arg, l_clear, l_set, l_prev,
                   l_signal, l_taken, list_lock, preempt, lockRest>>

\* Event::unwait, line 64
lk_unwait_call(p, w) ==
    /\ pc[p] = "idle"
    /\ arg' = [arg EXCEPT ![p] = w]
    /\ pc' = [pc EXCEPT ![p] = "lk_unwait_enter"]
    /\ UNCHANGED <<eventVars, obsVars, taskVars, used, l_clear, l_set, l_prev,
                   l_signal, l_taken, list_lock, preempt, lockRest>>

\* Event::unwait, lines 67-78: position and swap_remove
lk_unwait_remove(p) ==
    /\ pc[p] = "lk_unwait_cs"
    /\ LET pos == position(waiters, arg[p])
       IN IF pos # 0
          THEN /\ waiters' = swap_remove(waiters, pos)
               /\ unwaited' = [unwaited EXCEPT ![arg[p]] = Inc(@)]
          ELSE UNCHANGED <<waiters, unwaited>>
    /\ pc' = [pc EXCEPT ![p] = "lk_unwait_exit"]
    /\ UNCHANGED <<signal, notified, canceled, got_signal, at_wait, taskVars, used, arg,
                   l_clear, l_set, l_prev, l_signal, l_taken, list_lock, preempt,
                   lockRest>>

\* Event::cancel, line 84
lk_cancel_call(p) ==
    /\ pc[p] = "idle"
    /\ l_signal' = [l_signal EXCEPT ![p] = signal]
    /\ pc' = [pc EXCEPT ![p] = "lk_cancel_enter"]
    /\ UNCHANGED <<eventVars, obsVars, taskVars, used, arg, l_clear, l_set, l_prev,
                   l_taken, list_lock, preempt, lockRest>>

\* Event::cancel, line 86: mem::take
lk_cancel_take(p) ==
    /\ pc[p] = "lk_cancel_cs"
    /\ l_taken' = [l_taken EXCEPT ![p] = waiters]
    /\ waiters' = <<>>
    /\ pc' = [pc EXCEPT ![p] = "lk_cancel_exit"]
    /\ UNCHANGED <<signal, obsVars, taskVars, used, arg, l_clear, l_set, l_prev,
                   l_signal, list_lock, preempt, lockRest>>

\* Event::cancel, lines 87-89: on_cancel of the taken waiters, mutex released
lk_cancel_cb(p) ==
    /\ pc[p] = "lk_cancel_cb"
    /\ on_cancel(Head(l_taken[p]), l_signal[p])
    /\ IF Tail(l_taken[p]) = <<>>
       THEN Return(p, "idle")
       ELSE /\ l_taken' = [l_taken EXCEPT ![p] = Tail(@)]
            /\ UNCHANGED <<pc, arg, l_clear, l_set, l_prev, l_signal>>
    /\ UNCHANGED <<eventVars, used, notified, unwaited, at_wait, list_lock, preempt,
                   lockRest>>

\* Event::notify_impl, lines 98-113: the loop as one read-modify-write
lk_notify(p, clear, set) ==
    /\ pc[p] = "idle"
    /\ signal # NewSignal(signal, clear, set)
    /\ signal' = NewSignal(signal, clear, set)
    /\ IF FastPath(signal, signal')
       THEN UNCHANGED <<pc, l_signal>>
       ELSE /\ pc' = [pc EXCEPT ![p] = "lk_notify_enter"]
            /\ l_signal' = [l_signal EXCEPT ![p] = signal']
    /\ UNCHANGED <<waiters, obsVars, taskVars, used, arg, l_clear, l_set, l_prev,
                   l_taken, list_lock, preempt, lockRest>>

\* Event::notify_impl, line 116: retain, the callbacks run under the mutex
lk_notify_retain(p) ==
    /\ pc[p] = "lk_notify_cs"
    /\ waiters' = Retained(waiters, l_signal[p])
    /\ on_notify(Fired(waiters, l_signal[p]), l_signal[p])
    /\ pc' = [pc EXCEPT ![p] = "lk_notify_exit"]
    /\ UNCHANGED <<signal, used, canceled, unwaited, at_wait, arg, l_clear, l_set,
                   l_prev, l_signal, l_taken, list_lock, preempt, lockRest>>

\* the guard is dropped and PREEMPT.scope ends: the operation returns, cancel
\* goes on to its callbacks
lk_scope_exit(p) ==
    /\ pc[p] \in LkExit
    /\ list_lock' = "none"
    /\ preempt' = [preempt EXCEPT ![p] = @ - 1]
    /\ IF pc[p] = "lk_cancel_exit" /\ l_taken[p] # <<>>
       THEN /\ pc' = [pc EXCEPT ![p] = "lk_cancel_cb"]
            /\ UNCHANGED <<arg, l_clear, l_set, l_prev, l_signal, l_taken>>
       ELSE Return(p, IF pc[p] = "lk_wait_exit" THEN AfterWait(p) ELSE "idle")
    /\ UNCHANGED <<eventVars, obsVars, taskVars, used, lockRest>>

NextLock ==
    \/ \E t \in Tasks : obj_wait_call(t, "forever")
    \/ \E t \in Tasks : lk_wait_call(t, BlockerOf(t))
    \/ lk_wait_call("c2", "w2")
    \/ \E p \in AllProcs : lk_wait_try(p)
    \/ \E p \in AllProcs : lk_scope_enter(p)
    \/ \E p \in AllProcs : lk_lock(p)
    \/ \E p \in AllProcs : lk_wait_push(p)
    \/ \E p \in AllProcs : lk_scope_exit(p)
    \/ \E t \in Tasks : blocker_wait(t)
    \/ \E t \in Tasks : resume(t)
    \/ \E t \in Tasks : obj_wait_detach(t)
    \/ \E w \in {"w2", "b1"} : lk_unwait_call("c2", w)
    \/ lk_unwait_remove("c2")
    \/ lk_cancel_call("c1")
    \/ lk_cancel_take("c1")
    \/ lk_cancel_cb("c1")
    \/ \E a \in LockNotifyArgs : lk_notify("c1", a[1], a[2])
    \/ lk_notify_retain("c1")

\* CPU c1 notifies and cancels, CPU c2 waits and unwaits, the task waits in
\* obj_wait
InitLock ==
    /\ Init
    /\ signal = 0

SpecLock == InitLock /\ [][NextLock]_vars

(***************************************************************************)
(* Properties                                                              *)
(***************************************************************************)

MaxSend == 2

CUSTOM_MSG_ID_END == 12

\* the packets of the test: an id, one or two bytes, no or one handle
Packets ==
    [id : {CUSTOM_MSG_ID_END, 100}, bytes : {<<1>>, <<1, 2>>}, handles : {<<>>, <<"e">>}]

HandleCaps == 0 .. 1

BufferCaps == 0 .. 2

\* chan_send of the packet pkt on one end of the channel
chan_send(pkt) ==
    /\ Len(ch_sent) < MaxSend
    /\ ch_queue' = Append(ch_queue, pkt)
    /\ ch_sent' = Append(ch_sent, pkt)
    /\ UNCHANGED <<ch_ret, ch_recvd>>
    /\ UNCHANGED <<o_features, d_features, o_alive, h_blocker, list_lock, preempt,
                   detached, auxVars>>
    /\ UNCHANGED <<signal, waiters, waiter_data, used, notified, canceled, unwaited,
                   got_signal, at_wait, established, lin, pc, arg, l_clear, l_set,
                   l_prev, l_signal, l_taken, status, task_state, run_queue, timer,
                   result, dispVars>>

\* the packet fits the receiver's handle and byte capacities
fits_always(pkt, handle_cap, buffer_cap) == TRUE

fits(pkt, handle_cap, buffer_cap) ==
    /\ Len(pkt.handles) <= handle_cap
    /\ Len(pkt.bytes) <= buffer_cap

\* chan_recv on the peer end with a RawPacket of the given capacities
chan_recv(handle_cap, buffer_cap) ==
    /\ IF ch_queue = <<>>
       THEN /\ ch_ret' = RecvRet("ENOENT", NoPacket, handle_cap, buffer_cap)
            /\ UNCHANGED <<ch_queue, ch_recvd>>
       ELSE IF ~fits(Head(ch_queue), handle_cap, buffer_cap)
       THEN /\ ch_ret' = RecvRet("EBUFFER", NoPacket, handle_cap, buffer_cap)
            /\ UNCHANGED <<ch_queue, ch_recvd>>
       ELSE /\ ch_ret' = RecvRet("Ok", Head(ch_queue), handle_cap, buffer_cap)
            /\ ch_queue' = Tail(ch_queue)
            /\ ch_recvd' = Append(ch_recvd, Head(ch_queue))
    /\ UNCHANGED ch_sent
    /\ UNCHANGED <<o_features, d_features, o_alive, h_blocker, list_lock, preempt,
                   detached, auxVars>>
    /\ UNCHANGED <<signal, waiters, waiter_data, used, notified, canceled, unwaited,
                   got_signal, at_wait, established, lin, pc, arg, l_clear, l_set,
                   l_prev, l_signal, l_taken, status, task_state, run_queue, timer,
                   result, dispVars>>

NextChan ==
    \/ \E pkt \in Packets : chan_send(pkt)
    \/ \E h \in HandleCaps, b \in BufferCaps : chan_recv(h, b)

InitChan ==
    /\ Init
    /\ signal = 0

SpecChan == InitChan /\ [][NextChan]_vars

\* the running task issues a system call
sys_call(t) ==
    /\ pc[t] \in {"idle", "done"}
    /\ task_state[t] = "Ready"

\* the Dispatcher system calls as task t issues them, on the Event e1
task_disp_new(t) == sys_call(t) /\ disp_new(MaxCap)

task_disp_new2(t) == sys_call(t) /\ disp_new2(MaxCap)

task_obj_await2(t) ==
    sys_call(t) /\ \E a \in PushArgs("e1") : obj_await2("e1", a[1], a[2])

task_disp_push(t) ==
    sys_call(t) /\ \E a \in PushArgs("e1") : disp_push("e1", a[1], a[2])

task_obj_awend2(t) == sys_call(t) /\ obj_awend2

task_disp_pop(t) == sys_call(t) /\ disp_pop

SysNotifyArgs == {<<0, SIG_READ>>, <<SIG_READ, 0>>}

\* one task with handles of any feature set, on objects whose Event may be gone
InitSysAny ==
    /\ InitCommon
    /\ InitWaiterData
    /\ signal = 0
    /\ task_state = [t \in Tasks |-> "Ready"]
    /\ run_queue = [t \in Tasks |-> 1]
    /\ o_features \in [Objects -> {Features, Features \ {"WAIT"}}]
    /\ o_features["e2"] = Features
    /\ o_features["e3"] = Features
    /\ d_features \in {Features \ fs : fs \in SUBSET {"READ", "WRITE"}}
    /\ o_alive \in BOOLEAN
    /\ h_blocker = "none"
    /\ list_lock = "none"
    /\ preempt = [p \in AllProcs |-> 0]
    /\ detached = 0
    /\ ch_queue = <<>>
    /\ ch_ret = RecvRet("none", NoPacket, 0, 0)
    /\ ch_sent = <<>>
    /\ ch_recvd = <<>>
    /\ InitAux

NextSys ==
    \/ \E t \in Tasks, tmo \in Timeouts : obj_wait_call(t, tmo)
    \/ \E t \in Tasks : obj_await(t)
    \/ \E t \in Tasks : wait_impl_load(t, BlockerOf(t))
    \/ \E t \in Tasks : wait_impl_register(t)
    \/ \E t \in Tasks : obj_await_insert(t)
    \/ \E t \in Tasks, tmo \in Timeouts : obj_awend_call(t, tmo)
    \/ \E t \in Tasks : blocker_wait(t)
    \/ \E t \in Tasks : blocker_wait_err(t)
    \/ \E t \in Tasks : resume(t)
    \/ \E t \in Tasks : obj_wait_detach(t)
    \/ \E t \in Tasks : obj_awend_detach(t)
    \/ timer_fire
    \/ unwait_load(Timer, BlockerOf("t1"))
    \/ unwait_remove(Timer)
    \/ timer_wake
    \/ \E a \in SysNotifyArgs : notify_impl_call("c1", a[1], a[2])
    \/ notify_impl_cas_ok("c1")
    \/ notify_impl_retain("c1")
    \/ \E t \in Tasks : task_disp_new(t)
    \/ \E t \in Tasks : task_disp_new2(t)
    \/ \E t \in Tasks : task_obj_await2(t)
    \/ \E t \in Tasks : task_disp_push(t)
    \/ \E t \in Tasks : task_obj_awend2(t)
    \/ \E t \in Tasks : task_disp_pop(t)
    \/ ev_cancel("e1")

SpecSys == InitSysAny /\ [][NextSys]_vars

Quiet == \A p \in Procs \cup {Timer} : pc[p] = "idle"

Elems(ws) == {ws[i] : i \in 1 .. Len(ws)}

\* w sits in the list taken by a cancel that has not called it yet
InTaken(w) == \E p \in AllProcs : InListOf(l_taken[p], w)

\* C1: the signal always equals the result of applying the notify calls once
\* each, in the order of their linearization points (the successful exchange,
\* or the load that found nothing to change); the value a call is about to
\* write holds every bit of its set mask, also those it clears.
C1_NotifyLinearized ==
    /\ signal = lin
    /\ \A p \in AllProcs :
          pc[p] = "notify_cas" => And(l_signal[p], l_set[p]) = l_set[p]

\* one notify has applied its update and is about to scan while the other lost
\* the exchange and is about to retry
C1_Witness ==
    /\ pc["c1"] = "notify_scan"
    /\ pc["c2"] = "notify_load"
    /\ l_set["c2"] = SIG_READ
    /\ signal = SIG_GENERIC

\* C2: once wait and notify have both returned, a level-triggered waiter does
\* not sit in the list while the signal satisfies it.
C2_NoLostWakeup ==
    \A w \in AllWaiters :
        (/\ Quiet
         /\ waiter_data[w].trigger_mode = "Level"
         /\ InList(w)
         /\ Matches(waiter_data[w], signal))
        => notified[w] > 0

\* C3: a successful exchange that sets a bit which was clear goes on to the
\* scan with the value it wrote; the scan removes every listed waiter whose
\* desired bits are all set in that value and invokes its on_notify once, and
\* leaves every other listed waiter in the list, not invoked.
C3_ScanStep ==
    \A p \in AllProcs :
        /\ (/\ pc[p] = "notify_cas"
            /\ pc'[p] # "notify_cas"
            /\ signal' # signal
            /\ And(Not(signal), signal') # 0)
              => (pc'[p] = "notify_scan" /\ l_signal'[p] = signal')
        /\ (pc[p] = "notify_scan" /\ pc'[p] # "notify_scan")
              => \A w \in AllWaiters :
                    IF InList(w)
                    THEN IF Matches(waiter_data[w], l_signal[p])
                         THEN /\ ~InListOf(waiters', w)
                              /\ notified[w] = 0
                              /\ notified'[w] = 1
                              /\ got_signal'[w] = l_signal[p]
                         ELSE /\ InListOf(waiters', w)
                              /\ notified'[w] = notified[w]
                    ELSE /\ ~InListOf(waiters', w)
                         /\ notified'[w] = notified[w]

\* C3: every step of every behaviour is a C3_ScanStep: no registered matching
\* waiter is skipped by a scan, no other waiter is removed or invoked.
C3_NotifyDelivers == [][C3_ScanStep]_vars

\* a scan with SIG_READ has fired w2 and kept w1, which wants both bits
C3_Witness ==
    /\ Quiet
    /\ notified["w2"] = 1
    /\ got_signal["w2"] = SIG_READ
    /\ signal = SIG_READ
    /\ established["w2"]
    /\ InList("w1")
    /\ notified["w1"] = 0

\* C4: wait with a level-triggered waiter whose desired bits are all set in
\* the signal it read invokes on_notify once with that signal and returns
\* without touching the list; such a waiter is never in the list and is never
\* invoked again, by notify or by cancel.
C4_WaitStep ==
    \A p \in AllProcs :
        (/\ pc[p] = "wait"
         /\ pc'[p] # "wait"
         /\ waiter_data[arg[p]].trigger_mode = "Level"
         /\ Matches(waiter_data[arg[p]], l_signal[p]))
        => /\ notified[arg[p]] = 0
           /\ notified'[arg[p]] = 1
           /\ got_signal'[arg[p]] = l_signal[p]
           /\ at_wait'[arg[p]]
           /\ waiters' = waiters

C4_AtWaitOnce ==
    \A w \in AllWaiters :
        at_wait[w] => /\ notified[w] = 1
                      /\ canceled[w] = 0
                      /\ unwaited[w] = 0
                      /\ ~InList(w)
                      /\ ~InTaken(w)

\* C4: the registration step notifies a satisfied level-triggered waiter
\* synchronously and once, and nothing invokes or lists it afterwards.
C4_LevelNotifiedAtWait == [][C4_WaitStep]_vars /\ []C4_AtWaitOnce

\* w1 was notified by its own registration, with both bits set
C4_Witness ==
    /\ at_wait["w1"]
    /\ notified["w1"] = 1
    /\ got_signal["w1"] = SIG_GENERIC + SIG_READ
    /\ pc["c1"] = "idle"
    /\ waiters = <<>>

\* C5: wait with an edge-triggered waiter invokes no callback, whatever signal
\* it read, and appends the waiter to the list.
C5_WaitStep ==
    \A p \in AllProcs :
        (/\ pc[p] = "wait"
         /\ pc'[p] # "wait"
         /\ waiter_data[arg[p]].trigger_mode = "Edge")
        => /\ notified' = notified
           /\ got_signal' = got_signal
           /\ at_wait' = at_wait
           /\ waiters' = Append(waiters, arg[p])

\* C5: the registration step never invokes an edge-triggered waiter; it appends it.
C5_EdgeNeverAtWait ==
    [][C5_WaitStep]_vars /\ [](\A w \in AllWaiters :
                                  waiter_data[w].trigger_mode = "Edge" => ~at_wait[w])

\* the edge-triggered w2 was registered while its bit was set: it is listed,
\* not invoked, and no notify has run a scan since
C5_Witness ==
    /\ Quiet
    /\ InList("w2")
    /\ Matches(waiter_data["w2"], signal)
    /\ notified["w2"] = 0
    /\ ~established["w2"]
    /\ ~used["w1"]

\* C6: an edge-triggered waiter that was listed when a notify's exchange took
\* its condition from unmet to met is fired by that notify: until the scan of
\* a notify that wrote a matching value has run it may still be listed, after
\* it the waiter is out of the list, and unless unwait or cancel took it first
\* its on_notify was invoked once.
C6_EdgeFiredByEstablishingNotify ==
    \A w \in AllWaiters :
        (waiter_data[w].trigger_mode = "Edge" /\ established[w])
        => /\ InList(w) =>
                \E p \in AllProcs : /\ pc[p] = "notify_scan"
                                     /\ Matches(waiter_data[w], l_signal[p])
           /\ (~InList(w) /\ unwaited[w] = 0 /\ canceled[w] = 0 /\ ~InTaken(w))
                => notified[w] = 1
           /\ notified[w] <= 1

\* w2 was registered with its bit clear and the notify that set it fired it
C6_Witness ==
    /\ Quiet
    /\ established["w2"]
    /\ notified["w2"] = 1
    /\ ~InList("w2")
    /\ got_signal["w2"] = SIG_READ

\* C7: the removal step of unwait finds the waiter exactly when it is in the
\* list, then removes it and nothing else; otherwise the list is unchanged. A
\* waiter unwait has removed is never invoked by notify or cancel.
C7_UnwaitStep ==
    \A p \in AllProcs :
        (pc[p] = "unwait" /\ pc'[p] # "unwait")
        => IF InList(arg[p])
           THEN /\ unwaited'[arg[p]] = unwaited[arg[p]] + 1
                /\ Elems(waiters') = Elems(waiters) \ {arg[p]}
                /\ Len(waiters') = Len(waiters) - 1
           ELSE /\ unwaited' = unwaited
                /\ waiters' = waiters

C7_UnwaitedNeverInvoked ==
    \A w \in AllWaiters :
        unwaited[w] > 0 => /\ unwaited[w] = 1
                           /\ notified[w] = 0
                           /\ canceled[w] = 0
                           /\ ~InList(w)
                           /\ ~InTaken(w)

\* C7: unwait finds and removes the waiter iff it is listed, and a waiter it
\* removed is never invoked afterwards.
C7_Unwait == [][C7_UnwaitStep]_vars /\ []C7_UnwaitedNeverInvoked

\* w1 was removed by unwait while w2 stayed listed, and a later notify that
\* set both bits has completed without invoking w1
C7_Witness ==
    /\ Quiet
    /\ unwaited["w1"] = 1
    /\ notified["w1"] = 0
    /\ notified["w2"] = 1
    /\ signal = SIG_GENERIC + SIG_READ

\* C8: cancel empties the list in one step and keeps what it took; it then
\* invokes on_cancel once on each taken waiter with the signal it read, and no
\* on_notify; a cancelled waiter is never in the list again nor notified.
C8_CancelStep ==
    \A p \in AllProcs :
        /\ (pc[p] = "cancel_take" /\ pc'[p] # "cancel_take")
              => /\ waiters' = <<>>
                 /\ l_taken'[p] = waiters
                 /\ canceled' = canceled
                 /\ notified' = notified
        /\ (pc[p] = "cancel_call" /\ l_taken'[p] # l_taken[p])
              => LET w == Head(l_taken[p])
                 IN /\ canceled[w] = 0
                    /\ canceled' = [canceled EXCEPT ![w] = 1]
                    /\ got_signal'[w] = l_signal[p]
                    /\ notified' = notified
                    /\ IF Tail(l_taken[p]) = <<>>
                       THEN pc'[p] = "idle"
                       ELSE pc'[p] = "cancel_call" /\ l_taken'[p] = Tail(l_taken[p])

\* on_cancel is invoked by the loop of cancel only
C8_OnlyCancelCancels ==
    canceled' # canceled
    => \E p \in AllProcs : pc[p] = "cancel_call" /\ l_taken'[p] # l_taken[p]

C8_CanceledOnce ==
    \A w \in AllWaiters :
        /\ canceled[w] <= 1
        /\ canceled[w] = 1 => (notified[w] = 0 /\ unwaited[w] = 0 /\ ~InList(w))
        /\ InTaken(w) => (~InList(w) /\ notified[w] = 0 /\ canceled[w] = 0)

\* C8: cancel takes the whole list in one step and calls on_cancel once on
\* each taken waiter, and only cancel does.
C8_Cancel == [][C8_CancelStep /\ C8_OnlyCancelCancels]_vars /\ []C8_CanceledOnce

\* one cancel took a list of two waiters and has called both
C8_Witness ==
    /\ Quiet
    /\ canceled["w1"] = 1
    /\ canceled["w2"] = 1
    /\ waiters = <<>>

\* C9: a task parked in Blocker::wait is woken once: the Blocker leaves the
\* list either through the scan of a notify or through the timer's unwait,
\* never both; only that side makes the task Ready and enqueues it, the task
\* never owns two run-queue entries, and once the timer has run the task is no
\* longer Blocked.
C9_WokenOnce ==
    \A t \in Tasks :
        LET b == BlockerOf(t)
        IN /\ run_queue[t] <= 1
           /\ (task_state[t] = "Blocked") = (run_queue[t] = 0)
           /\ notified[b] + unwaited[b] <= 1
           /\ (pc[t] = "parked" /\ task_state[t] = "Ready")
                 => \/ notified[b] = 1 /\ status[b].matched
                    \/ unwaited[b] = 1 /\ pc[Timer] = "idle" /\ ~status[b].matched
           /\ (timer = "fired" /\ pc[Timer] = "idle") => task_state[t] # "Blocked"

\* the timer fired after a notify had already matched and woken the parked
\* task: its unwait is about to find the Blocker gone
C9_Witness ==
    /\ pc["t1"] = "parked"
    /\ task_state["t1"] = "Ready"
    /\ status["b1"].matched
    /\ timer = "fired"
    /\ pc[Timer] = "unwait"
    /\ run_queue["t1"] = 1

\* C10: an obj_wait without timeout on an Event whose SIG_READ is set by a
\* notify returns Ok with SIG_READ: it never returns anything else, and it is
\* not left parked while SIG_READ is set and no notify is in flight.
C10_WaitReturnsReadable ==
    \A t \in Tasks :
        timer = "forever"
        => /\ result[t] # <<"none">>
                => (result[t][1] = "Ok" /\ And(result[t][2], SIG_READ) = SIG_READ)
           /\ ~(/\ pc[t] = "parked"
                /\ task_state[t] = "Blocked"
                /\ Quiet
                /\ And(signal, SIG_READ) = SIG_READ)

\* an obj_wait that has returned left its Blocker outside the list; without
\* any on_notify of the Blocker the result is ETIME after the timer's unwait
C11_Returned ==
    \A t \in Tasks :
        LET b == BlockerOf(t)
        IN pc[t] = "done"
           => /\ ~InList(b)
              /\ ~InTaken(b)
              /\ notified[b] = 0
                    => /\ result[t] = <<"ETIME">>
                       /\ ~status[b].matched
                       /\ timer = "fired"
                       /\ unwaited[b] = 1
              /\ result[t] = <<"ETIME">> => notified[b] = 0

\* the removal step of an unwait on the Blocker after the return finds nothing
C11_LaterUnwaitStep ==
    \A p \in Procs :
        (pc[p] = "unwait" /\ pc'[p] # "unwait" /\ arg[p] \in Blockers)
        => /\ unwaited' = unwaited
           /\ waiters' = waiters

\* a wait with a finite timeout returns
C11_Returns == \A t \in Tasks : (timer = "finite") ~> (pc[t] = "done")

C12_Allowed ==
    {<<"Init", "Ready">>, <<"Ready", "Blocked">>, <<"Blocked", "Ready">>,
     <<"Ready", "Exit">>}

\* C12: every change of a task's state is one of Init -> Ready,
\* Ready -> Blocked, Blocked -> Ready, Ready -> Exit: Exit is entered from
\* Ready only and never left.
C12_Lifecycle ==
    [][\A t \in Tasks :
          task_state'[t] # task_state[t]
          => <<task_state[t], task_state'[t]>> \in C12_Allowed]_vars

\* the task was pushed, blocked in obj_wait, woken by the timer, and has exited
C12_Witness ==
    /\ task_state["t1"] = "Exit"
    /\ unwaited["b1"] = 1
    /\ result["t1"] = <<"ETIME">>

\* C13: a Blocked task owns no run-queue entry and a Ready task owns exactly
\* one, whatever block, wake-up (event match or timer) or exit has happened.
C13_RunQueueEntries ==
    \A t \in Tasks :
        /\ task_state[t] = "Blocked" => run_queue[t] = 0
        /\ task_state[t] = "Ready" => run_queue[t] = 1

\* the timer's unwait has woken the parked task, which has not run again yet,
\* while a notify that sets SIG_READ is about to scan the list
C13_Witness ==
    /\ pc["t1"] = "parked"
    /\ task_state["t1"] = "Ready"
    /\ run_queue["t1"] = 1
    /\ unwaited["b1"] = 1
    /\ \E p \in Procs : pc[p] = "notify_scan"

\* the registrations of the entries of q, in order
Regs(q) == [j \in 1 .. Len(q) |-> q[j].reg]

\* the registrations pop has returned followed by those it will return
Delivered == Regs(d_popped) \o Regs(d_ready)

\* the registrations in match order, without the dropped ones
FiredKept ==
    LET Kept(i) == ~InListOf(d_lost, i)
    IN SelectSeq(d_fired, Kept)

\* C14: Dispatcher FIFO: the entries pop has returned, followed by the queued
\* ones, are the registrations in the order their matches occurred, whatever
\* the order of registration, and each carries the key of its registration.
C14_Fifo ==
    /\ Delivered = FiredKept
    /\ \A j \in 1 .. Len(d_popped) : d_popped[j].key = d_regs[d_popped[j].reg].key

\* two Events registered in one order matched in the opposite order, and pop
\* returned them in match order
C14_Witness ==
    /\ d_kind = "v2"
    /\ Len(d_popped) >= 2
    /\ d_popped[1].reg > d_popped[2].reg
    /\ ~d_popped[1].canceled
    /\ ~d_popped[2].canceled

C15_Bounded == Len(d_ready) <= d_cap

\* a step in which registrations fire: the queued entries stay as they are,
\* what fits is appended, the rest is recorded as lost
C15_FireStep ==
    d_fired' # d_fired
    => /\ Len(d_ready') >= Len(d_ready)
       /\ SubSeq(d_ready', 1, Len(d_ready)) = d_ready
       /\ Len(d_lost') >= Len(d_lost)
       /\ SubSeq(d_lost', 1, Len(d_lost)) = d_lost
       /\ (Len(d_ready') - Len(d_ready)) + (Len(d_lost') - Len(d_lost))
             = Len(d_fired') - Len(d_fired)
       /\ Len(d_ready) = d_cap
             => /\ d_ready' = d_ready
                /\ d_fired' = d_fired \o SubSeq(d_lost', Len(d_lost) + 1, Len(d_lost'))
       /\ d_popped' = d_popped

\* C15: the ready queue never holds more than capacity entries; a
\* notification that fires while it is full is dropped and recorded as lost,
\* and the queued entries keep their content and order.
C15_Capacity == []C15_Bounded /\ [][C15_FireStep]_vars

\* a Dispatcher of capacity 1 holds one entry and has dropped a notification
C15_Witness ==
    /\ d_kind = "v2"
    /\ d_cap = 1
    /\ Len(d_ready) = 1
    /\ Len(d_lost) = 1

C17_EveryKeyDelivered ==
    \A i \in 1 .. Len(d_regs) :
        /\ Occ(i, Delivered) <= 1
        /\ Occ(i, d_fired) > 0 => Occ(i, Delivered) = 1

\* C17: every key push returned is accounted for exactly once: it is still
\* listed at its live Event, or it has fired once and is delivered by pop
\* exactly once (with canceled = true exactly when its Event was destroyed
\* before a matching signal), or its notification found the ready queue full
\* and is recorded as dropped; no key is delivered twice.
C17_KeyAccounted ==
    \A i \in 1 .. Len(d_regs) :
        LET r == d_regs[i]
        IN /\ Occ(i, d_fired) <= 1
           /\ Occ(i, d_fired) = 0
                 => /\ e_alive[r.event]
                    /\ Occ(i, e_waiters[r.event]) = 1
                    /\ Occ(i, Delivered) = 0
                    /\ Occ(i, d_lost) = 0
           /\ Occ(i, d_fired) = 1
                 => /\ Occ(i, e_waiters[r.event]) = 0
                    /\ Occ(i, Delivered) + Occ(i, d_lost) = 1
                    /\ Occ(i, d_lost) = 1 => Len(Delivered) >= d_cap
           /\ \A j \in 1 .. Len(d_popped) :
                 d_popped[j].reg = i
                 => /\ d_popped[j].key = r.returned
                    /\ d_popped[j].canceled => ~e_alive[r.event]
                    /\ ~d_popped[j].canceled => Matches(r.wd, d_popped[j].signal)

\* pop returned a canceled entry of a destroyed Event, and one notification
\* was dropped
C17_Witness ==
    /\ d_kind = "v1"
    /\ \E j \in 1 .. Len(d_popped) : d_popped[j].canceled
    /\ d_lost # <<>>

\* C18: the keys successive pushes returned are strictly increasing, and every
\* entry pop returned or will return carries the key its push returned.
C18_Keys ==
    /\ \A i, j \in 1 .. Len(d_regs) : i < j => d_regs[i].returned < d_regs[j].returned
    /\ \A j \in 1 .. Len(d_popped) : d_popped[j].key = d_regs[d_popped[j].reg].returned
    /\ \A j \in 1 .. Len(d_ready) : d_ready[j].key = d_regs[d_ready[j].reg].returned
    /\ (d_ret.call \in {"obj_await2", "disp_push"} /\ d_ret.status = "Ok")
          => d_ret.key = d_regs[Len(d_regs)].returned

\* three pushes, three pops: the entry of the last push was popped first
C18_Witness ==
    /\ Len(d_regs) = 3
    /\ Len(d_popped) = 3
    /\ d_popped[1].reg = 3

\* C19: the Dispatcher's own Event is signaled exactly when the ready queue
\* is not empty.
C19_SignaledIffReady == d_signaled = (d_ready # <<>>)

\* the queue of a Dispatcher made by disp_new was filled and popped empty
C19_Witness ==
    /\ d_kind = "v1"
    /\ d_popped # <<>>
    /\ d_ready = <<>>
    /\ ~d_signaled

PopCalls == {"obj_awend2", "disp_pop"}

\* C20: pop never blocks: on an empty queue the syscall returns ENOENT and
\* changes nothing, on a non-empty queue it removes and returns exactly the
\* oldest entry; the caller stays Ready, and entries leave only through pop.
C20_PopStep ==
    /\ (d_ret' # d_ret /\ d_ret'.call \in PopCalls)
          => /\ UNCHANGED <<d_kind, d_cap, d_next_key, d_regs, d_lost, d_fired, e_signal,
                            e_waiters, e_alive, coreVars>>
             /\ IF d_ready = <<>>
                THEN /\ d_ret'.status = "ENOENT"
                     /\ UNCHANGED <<d_ready, d_popped, d_signaled>>
                ELSE /\ d_ret'.status = "Ok"
                     /\ d_ret'.key = Head(d_ready).key
                     /\ d_ret'.canceled = Head(d_ready).canceled
                     /\ d_ready' = Tail(d_ready)
                     /\ d_popped' = Append(d_popped, Head(d_ready))
    /\ d_popped' # d_popped => (d_ret' # d_ret /\ d_ret'.call \in PopCalls)

C20_PopNonBlocking == [][C20_PopStep]_vars

\* a poll of the emptied queue returned ENOENT after earlier pops succeeded
C20_Witness ==
    /\ d_ret = Ret("disp_pop", "ENOENT", 0, FALSE, 0)
    /\ d_popped # <<>>
    /\ d_ready = <<>>

\* at most one of unwait-found, on_notify, on_cancel per waiter, and then the
\* waiter is neither listed nor held by a cancel
C26_OneOutcome ==
    \A w \in AllWaiters :
        LET n == notified[w] + canceled[w] + unwaited[w]
        IN /\ n <= 1
           /\ n = 1 => (~InList(w) /\ ~InTaken(w))

\* the removal step of an unwait whose waiter was already notified, cancelled
\* or taken by a cancel finds nothing
C26_LostUnwaitStep ==
    \A p \in AllProcs :
        (/\ pc[p] = "unwait"
         /\ pc'[p] # "unwait"
         /\ \/ notified[arg[p]] + canceled[arg[p]] > 0
            \/ InTaken(arg[p]))
        => /\ unwaited' = unwaited
           /\ waiters' = waiters

\* C26: for every waiter at most one of unwait returning found, on_notify and
\* on_cancel happens under all interleavings; afterwards the waiter is out of
\* the list and an unwait that lost the race returns found = false.
C26_Arbitration == []C26_OneOutcome /\ [][C26_LostUnwaitStep]_vars

\* an unwait is at its removal step for a listed waiter that a notify's scan
\* has already fired and removed
C26_Witness ==
    \E p \in Procs :
        /\ pc[p] = "unwait"
        /\ notified[arg[p]] = 1
        /\ ~at_wait[arg[p]]

\* C27: an edge-triggered waiter is notified only after a notify took its
\* condition from unmet to met while it was listed.
C27_EdgeOnlyOnTransition ==
    \A w \in AllWaiters :
        (waiter_data[w].trigger_mode = "Edge" /\ notified[w] > 0) => established[w]

\* the value handed to on_notify satisfies the waiter's mask
C28_MaskSatisfied ==
    \A w \in AllWaiters : notified[w] > 0 => Matches(waiter_data[w], got_signal[w])

\* the scan passes the value its own exchange wrote, wait passes the value it
\* read, and nothing else invokes on_notify
C28_ValueStep ==
    /\ \A p \in AllProcs :
          /\ (pc[p] = "notify_cas" /\ pc'[p] = "notify_scan")
                => /\ signal' = NewSignal(signal, l_clear[p], l_set[p])
                   /\ l_signal'[p] = signal'
          /\ (pc[p] = "notify_scan" /\ pc'[p] = "notify_scan")
                => l_signal'[p] = l_signal[p]
          /\ (pc[p] = "notify_scan" /\ pc'[p] # "notify_scan")
                => \A w \in AllWaiters :
                      notified'[w] # notified[w] => got_signal'[w] = l_signal[p]
          /\ (pc[p] # "wait" /\ pc'[p] = "wait") => l_signal'[p] = signal
          /\ (pc[p] = "wait" /\ pc'[p] = "wait") => l_signal'[p] = l_signal[p]
          /\ (pc[p] = "wait" /\ pc'[p] # "wait")
                => (notified'[arg[p]] # notified[arg[p]]
                      => got_signal'[arg[p]] = l_signal[p])
    /\ notified' # notified
          => \E p \in AllProcs : /\ pc[p] \in {"notify_scan", "wait"}
                                  /\ pc'[p] # pc[p]

\* C28: the signal passed to on_notify satisfies the waiter's mask and is the
\* value at match time: the new value written by the matching notify's own
\* exchange, or the value wait read; never the value of a later notify.
C28_SignalAtMatch == []C28_MaskSatisfied /\ [][C28_ValueStep]_vars

\* w2 was fired by a scan with SIG_READ and later notifies have cleared the
\* signal: the value it got is not the present one
C28_Witness ==
    /\ Quiet
    /\ notified["w2"] = 1
    /\ got_signal["w2"] = SIG_READ
    /\ signal = SIG_GENERIC

\* C29: a notify whose new signal has no bit the old one lacked returns with
\* no callback and the list untouched: at once when the signal is unchanged,
\* after storing the narrowed signal when bits are only cleared; every other
\* successful exchange goes on to the scan.
C29_FastPathStep ==
    /\ (pc' = pc /\ lin' # lin)
          => UNCHANGED <<signal, waiters, notified, canceled, got_signal>>
    /\ \A p \in AllProcs :
        /\ (pc[p] = "notify_load" /\ pc'[p] = "idle")
              => UNCHANGED <<signal, waiters, notified, canceled, got_signal>>
        /\ (pc[p] = "notify_cas" /\ pc'[p] \in {"idle", "notify_scan"})
              => LET new == NewSignal(l_prev[p], l_clear[p], l_set[p])
                 IN /\ signal' = new
                    /\ UNCHANGED <<waiters, notified, canceled, got_signal>>
                    /\ (pc'[p] = "idle") = (And(new, Not(l_prev[p])) = 0)

C29_FastPath == [][C29_FastPathStep]_vars

\* a clear-only notify is about to store the narrowed signal while waiters
\* are listed
C29_Witness ==
    \E p \in Procs :
        /\ pc[p] = "notify_cas"
        /\ CasHolds(p)
        /\ l_set[p] = 0
        /\ And(l_signal[p], Not(l_prev[p])) = 0
        /\ waiters # <<>>

\* the Waiters that reference task t and can still wake it: its Blocker on the
\* waiter list, or in the hands of the timer context that took it off
C24_Outstanding(t) ==
    Occ(BlockerOf(t), waiters) + (IF pc[Timer] = "timer_wake" THEN 1 ELSE 0)

PushCalls == {"obj_await2", "disp_push"}

\* without WAIT on the object no Blocker is made or listed, no handle is
\* inserted and the task stays Ready
C21_NoWaitNoBlocker ==
    "WAIT" \notin o_features["obj"]
    => /\ \A t \in Tasks :
            /\ ~used[BlockerOf(t)]
            /\ task_state[t] = "Ready"
            /\ result[t] \in {<<"none">>, <<"EPERM">>, <<"ENOENT">>}
       /\ h_blocker = "none"
       /\ waiters = <<>>

\* obj_wait and obj_await return EPERM exactly for want of WAIT and then
\* change nothing else
C21_WaitStep ==
    \A t \in Tasks :
        /\ (pc[t] = "idle" /\ pc'[t] = "blocker_new") => "WAIT" \in o_features["obj"]
        /\ (result'[t] = <<"EPERM">> /\ result[t] # <<"EPERM">>)
              => /\ "WAIT" \notin o_features["obj"]
                 /\ pc[t] = "idle"
                 /\ pc'[t] = "done"
                 /\ UNCHANGED <<waiters, used, h_blocker, task_state, run_queue, timer,
                                dispVars>>

\* registration returns EPERM exactly when WAIT or WRITE is missing, pop
\* exactly when READ is missing, and such a call changes the Dispatcher and
\* the Events in nothing but its return value
C21_DispStep ==
    /\ (d_ret' # d_ret /\ d_ret'.call \in PushCalls)
          => IF "WAIT" \notin o_features["e1"] \/ "WRITE" \notin d_features
             THEN /\ d_ret'.status = "EPERM"
                  /\ UNCHANGED <<d_regs, d_next_key, d_ready, d_popped, d_lost, d_fired,
                                 d_signaled, e_waiters, e_signal, waiters, task_state>>
             ELSE d_ret'.status # "EPERM"
    /\ (d_ret' # d_ret /\ d_ret'.call \in PopCalls)
          => IF "READ" \notin d_features
             THEN /\ d_ret'.status = "EPERM"
                  /\ UNCHANGED <<d_regs, d_next_key, d_ready, d_popped, d_lost, d_fired,
                                 d_signaled, e_waiters, e_signal, waiters, task_state>>
             ELSE d_ret'.status # "EPERM"
    /\ d_regs' # d_regs
          => /\ "WRITE" \in d_features
             /\ "WAIT" \in o_features[d_regs'[Len(d_regs')].event]
    /\ d_popped' # d_popped => "READ" \in d_features

\* C21: obj_wait and obj_await fail with EPERM without WAIT on the object,
\* registration with a Dispatcher fails with EPERM unless the object has WAIT
\* and the Dispatcher WRITE, pop fails with EPERM unless the Dispatcher has
\* READ; a failing call creates no Blocker or registration, pops nothing,
\* changes no waiter list and does not block.
C21_Capabilities == []C21_NoWaitNoBlocker /\ [][C21_WaitStep /\ C21_DispStep]_vars

\* the wait was refused for want of WAIT and a pop for want of READ while a
\* ready entry was queued
C21_Witness ==
    /\ result["t1"] = <<"EPERM">>
    /\ d_ret.call \in PopCalls
    /\ d_ret.status = "EPERM"
    /\ d_ready # <<>>

\* with the Event gone no Blocker is made or listed and the task stays
\* Ready; the outcome is EPERM without WAIT and EPIPE with it
C22_DeadNoBlocker ==
    ~o_alive
    => /\ \A t \in Tasks :
            /\ ~used[BlockerOf(t)]
            /\ task_state[t] = "Ready"
            /\ result[t] \in {<<"none">>, <<"ENOENT">>,
                               IF "WAIT" \in o_features["obj"]
                               THEN <<"EPIPE">> ELSE <<"EPERM">>}
       /\ h_blocker = "none"
       /\ waiters = <<>>

C22_Step ==
    /\ \A t \in Tasks :
        /\ (pc[t] = "idle" /\ pc'[t] = "blocker_new") => o_alive
        /\ (result'[t] = <<"EPIPE">> /\ result[t] # <<"EPIPE">>)
              => /\ ~o_alive
                 /\ "WAIT" \in o_features["obj"]
                 /\ pc[t] = "idle"
                 /\ pc'[t] = "done"
                 /\ UNCHANGED <<waiters, used, h_blocker, task_state, run_queue, timer,
                                dispVars>>
    /\ (d_ret' # d_ret /\ d_ret'.call \in PushCalls /\ ~e_alive["e1"])
          => /\ d_ret'.status =
                    (IF "WAIT" \in o_features["e1"] /\ "WRITE" \in d_features
                     THEN "EPIPE" ELSE "EPERM")
             /\ d_ret'.key = 0
             /\ UNCHANGED <<d_regs, d_next_key, d_ready, d_popped, d_lost, d_fired,
                            d_signaled, e_waiters, e_signal, waiters, task_state>>
    /\ (d_ret' # d_ret /\ d_ret'.status = "EPIPE")
          => d_ret'.call \in PushCalls /\ ~e_alive["e1"]

\* C22: once the object's Event is destroyed obj_wait, obj_await and
\* registration with a Dispatcher fail with EPIPE, creating no waiter,
\* returning no key and not blocking; the capability check comes first, so a
\* handle without WAIT gets EPERM even then.
C22_BrokenEvent == []C22_DeadNoBlocker /\ [][C22_Step]_vars

\* the wait on the dead Event returned EPIPE and so did a registration of
\* the cancelled Event e1
C22_Witness ==
    /\ ~o_alive
    /\ result["t1"] = <<"EPIPE">>
    /\ d_ret.call \in PushCalls
    /\ d_ret.status = "EPIPE"

\* the Blocker of obj_await is detached at most once, and exactly once when
\* its handle is gone
C23_DetachedOnce ==
    /\ detached <= 1
    /\ h_blocker = "removed" => detached = 1
    /\ h_blocker \in {"new", "open"} => detached = 0

C23_Step ==
    \A t \in Tasks :
        /\ (pc[t] = "detach" /\ pc'[t] # "detach" /\ h_blocker = "open")
              => /\ h_blocker' = "removed"
                 /\ detached' = detached + 1
                 /\ result'[t] = (IF status[BlockerOf(t)].matched
                                  THEN <<"Ok", status[BlockerOf(t)].signal>>
                                  ELSE <<"ETIME">>)
        /\ h_blocker = "removed"
              => /\ h_blocker' = "removed"
                 /\ pc'[t] \notin {"blocker_wait", "parked", "detach"}
                 /\ UNCHANGED <<detached, task_state, timer, waiters, status>>
                 /\ result'[t] \in {result[t], <<"ENOENT">>}

\* C23: when the wait of obj_awend resolves, with the signal or with ETIME,
\* the waiter handle is removed and the Blocker detached exactly once; a
\* further obj_awend on that handle fails at the handle lookup and neither
\* waits nor detaches.
C23_AwendOnce == []C23_DetachedOnce /\ [][C23_Step]_vars

\* the wait timed out, obj_awend returned ETIME and removed the handle, and a
\* second obj_awend failed at the lookup
C23_Witness ==
    /\ h_blocker = "removed"
    /\ result["t1"] = <<"ENOENT">>
    /\ ~status["b1"].matched
    /\ timer = "fired"
    /\ detached = 1

\* what was received is, in order, what was sent and is no longer queued
C25_Intact == ch_sent = ch_recvd \o ch_queue

\* a chan_recv has returned or taken a packet
C25_Recv == ch_sent' = ch_sent /\ (ch_ret' # ch_ret \/ ch_queue' # ch_queue)

\* the head of the queue exceeds one of the capacities of the call
C25_TooSmall ==
    /\ ch_queue # <<>>
    /\ \/ Len(Head(ch_queue).handles) > ch_ret'.handle_cap
       \/ Len(Head(ch_queue).bytes) > ch_ret'.buffer_cap

C25_RecvStep ==
    C25_Recv
    => /\ C25_TooSmall = (ch_ret'.status = "EBUFFER")
       /\ ch_ret'.status = "EBUFFER" => UNCHANGED <<ch_queue, ch_recvd>>
       /\ ch_ret'.status = "ENOENT"
            => /\ ch_queue = <<>>
               /\ UNCHANGED <<ch_queue, ch_recvd>>
       /\ ch_ret'.status = "Ok"
            => /\ ch_queue # <<>>
               /\ ch_ret'.packet = Head(ch_queue)
               /\ ch_queue' = Tail(ch_queue)

\* C25: a chan_recv whose handle or byte buffer is too small fails with
\* EBUFFER and consumes nothing; a later chan_recv with adequate buffers
\* returns that same packet with its id, bytes and handle; on the then empty
\* channel chan_recv returns ENOENT.
C25_RecvBuffer == []C25_Intact /\ [][C25_RecvStep]_vars

\* the two-byte packet with a handle was received whole and the next
\* chan_recv found the channel empty
C25_Witness ==
    /\ ch_ret.status = "ENOENT"
    /\ ch_recvd = <<[id |-> 100, bytes |-> <<1, 2>>, handles |-> <<"e">>]>>
    /\ ch_sent = ch_recvd

\* the positions between PREEMPT.scope's entry and its end
LkInside ==
    {LkSpin[x] : x \in DOMAIN LkSpin} \cup {LkCs[x] : x \in DOMAIN LkCs} \cup LkExit

\* the holder of the mutex has preemption disabled; outside PREEMPT.scope a
\* context holds neither, and so does a Blocked task
C30_LockHeld ==
    /\ \A p \in AllProcs :
          /\ list_lock = p => (preempt[p] > 0 /\ pc[p] \in LkInside)
          /\ pc[p] \notin LkInside => (list_lock # p /\ preempt[p] = 0)
    /\ \A t \in Tasks :
          task_state[t] = "Blocked" => (list_lock # t /\ preempt[t] = 0)

\* a step that changes the list, or finds a waiter in it, is taken by the
\* holder of the mutex inside its critical section
C30_AccessStep ==
    (waiters' # waiters \/ unwaited' # unwaited)
    => \E p \in AllProcs :
          /\ list_lock = p
          /\ preempt[p] > 0
          /\ pc[p] \in {LkCs[x] : x \in DOMAIN LkCs}
          /\ pc'[p] # pc[p]
          /\ \A q \in AllProcs \ {p} : pc'[q] = pc[q]

\* C30: wait, unwait, cancel and notify touch the waiter list only with
\* preemption disabled and the list mutex held, and release both before they
\* return; no task is suspended holding the mutex.
C30_ListLocked == []C30_LockHeld /\ [][C30_AccessStep]_vars

\* the task is parked in obj_wait while c1 scans the list under the mutex and
\* c2 spins for it with preemption disabled
C30_Witness ==
    /\ list_lock = "c1"
    /\ pc["c1"] = "lk_notify_cs"
    /\ pc["c2"] = "lk_unwait_spin"
    /\ pc["t1"] = "parked"
    /\ task_state["t1"] = "Blocked"

\* every waiter is listed at most once
C38_ListedOnce == \A w \in AllWaiters : Occ(w, waiters) <= 1

\* the removal step of unwait(w) keeps every other waiter listed, invokes
\* no callback and leaves the signal alone
C38_UnwaitStep ==
    \A p \in AllProcs :
        (pc[p] = "unwait" /\ pc'[p] # "unwait")
        => /\ \A w \in AllWaiters \ {arg[p]} : Occ(w, waiters') = Occ(w, waiters)
           /\ Occ(arg[p], waiters') = 0
           /\ UNCHANGED <<signal, notified, canceled, got_signal, at_wait, status,
                          task_state>>

\* C38: Event::unwait(w) removes only w: every other registered waiter is
\* still registered exactly once afterwards, whatever its new position; no
\* callback is invoked and the signal word is unchanged.
C38_UnwaitFrame == []C38_ListedOnce /\ [][C38_UnwaitStep]_vars

\* w1 was removed by unwait and w2, registered behind it or later, is the
\* whole list and was never invoked
C38_Witness ==
    /\ Quiet
    /\ unwaited["w1"] = 1
    /\ waiters = <<"w2">>
    /\ notified["w2"] = 0
    /\ canceled["w2"] = 0

\* the context whose step this is
C31_Actor(p) == pc'[p] # pc[p] \/ l_taken'[p] # l_taken[p]

\* a step invokes a callback
C31_Callback == notified' # notified \/ canceled' # canceled

\* C31 as stated: no Event operation invokes on_notify or on_cancel while it
\* holds the waiter-list mutex.
C31_NoCallbackUnderLock ==
    [][\A p \in AllProcs : (C31_Actor(p) /\ C31_Callback) => list_lock # p]_vars

\* C32: once obj_wait has returned, on whatever path after Blocker::new, its
\* Blocker has been detached exactly once and is not registered on the Event.
C32_DetachedOnReturn ==
    \A t \in Tasks :
        (pc[t] = "done" /\ used[BlockerOf(t)] /\ h_blocker = "none")
        => /\ detached = 1
           /\ ~InList(BlockerOf(t))

(***************************************************************************)
(* The pure functions: WaiterData::can_signal (ipc.rs) and the single-word *)
(* RunningState (sm.rs), each applied to inputs drawn from bounded sets.   *)
(***************************************************************************)
TriggerModes == {"Level", "Edge"}

\* the i128 values of the modelled width, and the timestamps an Instant holds
Timestamps == 0 .. 2 ^ RsBits - 1

\* one call wd.can_signal(sig, on_wait), its result kept with its inputs
can_signal_call(wd, sig, on_wait) ==
    /\ cs' = [called |-> TRUE, wd |-> wd, signal |-> sig, on_wait |-> on_wait,
              ret |-> can_signal(wd, sig, on_wait)]
    /\ UNCHANGED <<rs, sm, su, rpc, baseVars>>

\* RunningState::running(start_time): the union holds the Instant's bits
running(start_time) == [bits |-> start_time, arg |-> Some(start_time)]

\* RunningState::value: the bits read as an i128
value(r) == IF r.bits >= 2 ^ (RsBits - 1) THEN r.bits - 2 ^ RsBits ELSE r.bits

\* RunningState::start_time
start_time(r) ==
    IF value(r) = NOT_RUNNING_VALUE \/ value(r) = NEED_RESCHED_VALUE
    THEN None
    ELSE Some(r.bits)

\* RunningState::needs_resched
needs_resched(r) == value(r) = NEED_RESCHED_VALUE

\* RunningState::not_running
not_running(r) == value(r) = NOT_RUNNING_VALUE

\* a RunningState is built: one of the two constants, or running(t)
rs_make(r) ==
    /\ rs' = r
    /\ UNCHANGED <<cs, sm, su, rpc, baseVars>>

rs_not_running == rs_make(NOT_RUNNING)
rs_need_resched == rs_make(NEED_RESCHED)
rs_running(t) == rs_make(running(t))

NextFn ==
    \/ \E m \in TriggerModes, desired \in Signals, sig \in Signals, on_wait \in BOOLEAN :
           can_signal_call([trigger_mode |-> m, signal |-> desired], sig, on_wait)
    \/ rs_not_running
    \/ rs_need_resched
    \/ \E t \in Timestamps : rs_running(t)

InitFn == Init /\ signal = 0

SpecFn == InitFn /\ [][NextFn]_vars

\* the bits of desired are all set in sig
C33_Covers(desired, sig) == \A i \in 0 .. NBits - 1 : Bit(desired, i) = 1 => Bit(sig, i) = 1

\* C33: can_signal(signal, on_wait) is false when on_wait is set and the
\* trigger mode is Edge; otherwise it is true exactly when every bit of the
\* desired mask is set in the signal, so an empty mask matches every signal.
C33_CanSignal ==
    cs.called =>
        /\ (cs.on_wait /\ cs.wd.trigger_mode = "Edge") => ~cs.ret
        /\ ~(cs.on_wait /\ cs.wd.trigger_mode = "Edge") =>
               (cs.ret <=> C33_Covers(cs.wd.signal, cs.signal))
        /\ (cs.wd.signal = 0 /\ ~(cs.on_wait /\ cs.wd.trigger_mode = "Edge")) => cs.ret

\* an Edge waiter asked outside of wait matches, and with an empty mask too
C33_Witness ==
    /\ cs.called
    /\ cs.wd.trigger_mode = "Edge"
    /\ ~cs.on_wait
    /\ cs.wd.signal = 0
    /\ cs.signal = SIG_READ
    /\ cs.ret

\* the three states of the tagged variant, read off the word
C37_Tags(r) == {tg \in {"NotRunning", "NeedResched", "Running"} :
                   \/ tg = "NotRunning" /\ not_running(r)
                   \/ tg = "NeedResched" /\ needs_resched(r)
                   \/ tg = "Running" /\ start_time(r) # None}

\* C37: the single-word RunningState behaves as the tagged variant: for
\* every value exactly one of not_running(), needs_resched() and
\* start_time().is_some() holds, and for every timestamp t the value
\* running(t) has start_time() = Some(t) with not_running() and
\* needs_resched() both false.
C37_TaggedVariant ==
    /\ Cardinality(C37_Tags(rs)) = 1
    /\ rs.arg # None =>
           /\ start_time(rs) = rs.arg
           /\ ~not_running(rs)
           /\ ~needs_resched(rs)

(***************************************************************************)
(* The task typestates of sm.rs: Init, Ready and Blocked each own the      *)
(* Box<Context>; a transition takes its state object by value and builds   *)
(* the next one around the same Context.  sm.init, sm.ready and sm.blocked *)
(* hold the state object that exists, sm.dropper is idle::CTX_DROPPER.     *)
(***************************************************************************)
MaxRuntime == 2
Cpus == 0 .. 1
TimeSlices == 1 .. 2
Retvals == 1 .. 2
BlockDescs == {"task_sleep", "Blocker::wait"}

\* Init::new(tid, space, kstack, ext_frame); ti names the four resources
init_new(ti) ==
    /\ sm.born = None
    /\ LET ctx == [tid |-> ti, space |-> ti, kstack |-> ti, ext_frame |-> ti,
                   cpu |-> 0, runtime |-> 0]
       IN sm' = [sm EXCEPT !.init = Some(ctx), !.born = Some(ctx), !.tid_live = TRUE]
    /\ UNCHANGED <<cs, rs, su, rpc, baseVars>>

\* <Init as IntoReady>::last_cpu and <Blocked as IntoReady>::last_cpu of the
\* state object that exists
last_cpu(s) == IF s.blocked # None THEN Some(s.blocked[1].ctx.cpu) ELSE None

\* <Init as IntoReady>::into_ready(this, cpu, time_slice)
init_into_ready(cpu, time_slice) ==
    /\ sm.init # None
    /\ LET ctx == [sm.init[1] EXCEPT !.cpu = cpu]
       IN sm' = [sm EXCEPT !.init = None,
                           !.ready = Some([ctx |-> ctx, running_state |-> NOT_RUNNING,
                                           time_slice |-> time_slice]),
                           !.call = Some(<<cpu, time_slice>>)]
    /\ UNCHANGED <<cs, rs, su, rpc, baseVars>>

\* the scheduler runs the Ready task from the instant now and accounts the time
ready_tick(now) ==
    /\ sm.ready # None
    /\ sm.exit_pc = "none"
    /\ sm' = [sm EXCEPT !.ready[1].running_state = running(now),
                        !.ready[1].ctx.runtime = Min(@ + 1, MaxRuntime)]
    /\ UNCHANGED <<cs, rs, su, rpc, baseVars>>

\* a block that leaves the Ready object behind, with the Context in both
ready_block_copy(block_desc) ==
    /\ sm.ready # None
    /\ sm.exit_pc = "none"
    /\ sm' = [sm EXCEPT !.blocked = Some([ctx |-> sm.ready[1].ctx, block_desc |-> block_desc])]
    /\ UNCHANGED <<cs, rs, su, rpc, baseVars>>

\* Ready::block(this, block_desc)
ready_block(block_desc) ==
    /\ sm.ready # None
    /\ sm.exit_pc = "none"
    /\ sm' = [sm EXCEPT !.ready = None,
                        !.blocked = Some([ctx |-> sm.ready[1].ctx, block_desc |-> block_desc])]
    /\ UNCHANGED <<cs, rs, su, rpc, baseVars>>

\* an into_ready that keeps the CPU the task was last on
blocked_into_ready_keep_cpu(cpu, time_slice) ==
    /\ sm.blocked # None
    /\ sm' = [sm EXCEPT !.blocked = None,
                        !.ready = Some([ctx |-> sm.blocked[1].ctx,
                                        running_state |-> NOT_RUNNING,
                                        time_slice |-> time_slice]),
                        !.call = Some(<<cpu, time_slice>>)]
    /\ UNCHANGED <<cs, rs, su, rpc, baseVars>>

\* <Blocked as IntoReady>::into_ready(this, cpu, time_slice)
blocked_into_ready(cpu, time_slice) ==
    /\ sm.blocked # None
    /\ LET ctx == [sm.blocked[1].ctx EXCEPT !.cpu = cpu]
       IN sm' = [sm EXCEPT !.blocked = None,
                           !.ready = Some([ctx |-> ctx, running_state |-> NOT_RUNNING,
                                           time_slice |-> time_slice]),
                           !.call = Some(<<cpu, time_slice>>)]
    /\ UNCHANGED <<cs, rs, su, rpc, baseVars>>

\* Ready::exit(this, retval), line 254: tid::deallocate(&this.ctx.tid)
exit_deallocate(retval) ==
    /\ sm.ready # None
    /\ sm.exit_pc = "none"
    /\ sm' = [sm EXCEPT !.tid_live = FALSE, !.retval = retval, !.exit_pc = "replace"]
    /\ UNCHANGED <<cs, rs, su, rpc, baseVars>>

\* Ready::exit, line 255: this.ctx.tid.ret_cell.replace(retval)
exit_replace ==
    /\ sm.exit_pc = "replace"
    /\ sm' = [sm EXCEPT !.ret_cell = Some(sm.retval), !.exit_pc = "push"]
    /\ UNCHANGED <<cs, rs, su, rpc, baseVars>>

\* an exit that drops the Context itself
exit_push_free ==
    /\ sm.exit_pc = "push"
    /\ sm' = [sm EXCEPT !.ready = None, !.freed = Append(@, sm.ready[1].ctx),
                        !.exit_pc = "done"]
    /\ UNCHANGED <<cs, rs, su, rpc, baseVars>>

\* Ready::exit, line 256: idle::CTX_DROPPER.push(this.ctx)
exit_push ==
    /\ sm.exit_pc = "push"
    /\ sm' = [sm EXCEPT !.ready = None, !.dropper = Append(@, sm.ready[1].ctx),
                        !.exit_pc = "done"]
    /\ UNCHANGED <<cs, rs, su, rpc, baseVars>>

\* task_join: child.cell().take(..) returns once ret_cell holds the value
task_join ==
    /\ sm.ret_cell # None
    /\ sm' = [sm EXCEPT !.joined = sm.ret_cell, !.ret_cell = None]
    /\ UNCHANGED <<cs, rs, su, rpc, baseVars>>

\* the idle task drains CTX_DROPPER: the Context, its kernel stack and its
\* register buffer are freed
dropper_drain ==
    /\ sm.dropper # <<>>
    /\ sm' = [sm EXCEPT !.dropper = Tail(@), !.freed = Append(@, Head(sm.dropper))]
    /\ UNCHANGED <<cs, rs, su, rpc, baseVars>>

NextSm ==
    \/ \E ti \in 1 .. 2 : init_new(ti)
    \/ \E cpu \in Cpus, ts \in TimeSlices : init_into_ready(cpu, ts)
    \/ \E now \in 1 .. 2 : ready_tick(now)
    \/ \E d \in BlockDescs : ready_block(d)
    \/ \E cpu \in Cpus, ts \in TimeSlices : blocked_into_ready(cpu, ts)
    \/ \E retval \in Retvals : exit_deallocate(retval)
    \/ exit_replace
    \/ exit_push
    \/ task_join
    \/ dropper_drain

InitSm == Init /\ signal = 0

SpecSm == InitSm /\ [][NextSm]_vars

\* C34: into_ready(task, cpu, time_slice), on an Init and on a Blocked task
\* alike, yields a Ready task whose current CPU is cpu, whose time slice is
\* time_slice and whose RunningState is not-running.
C34_IntoReady ==
    [][(sm.ready = None /\ sm'.ready # None) =>
           /\ sm.init # None \/ sm.blocked # None
           /\ sm'.ready[1].ctx.cpu = sm'.call[1][1]
           /\ sm'.ready[1].time_slice = sm'.call[1][2]
           /\ not_running(sm'.ready[1].running_state)
           /\ ~needs_resched(sm'.ready[1].running_state)
           /\ start_time(sm'.ready[1].running_state) = None]_vars

\* a task that ran on CPU 0 and blocked is Ready again, on CPU 1
C34_Witness ==
    /\ sm.ready # None
    /\ sm.ready[1].ctx.runtime > 0
    /\ sm.ready[1].ctx.cpu = 1
    /\ sm.ready[1].time_slice = 2
    /\ not_running(sm.ready[1].running_state)
    /\ sm.joined = None

\* the Contexts held by the state objects, the reclamation queue and the freed
\* ones, one entry per holder
C35_Held ==
    (IF sm.init # None THEN <<sm.init[1]>> ELSE <<>>)
    \o (IF sm.ready # None THEN <<sm.ready[1].ctx>> ELSE <<>>)
    \o (IF sm.blocked # None THEN <<sm.blocked[1].ctx>> ELSE <<>>)
    \o sm.dropper \o sm.freed

C35_SameResources(c, b) ==
    /\ c.tid = b.tid
    /\ c.space = b.space
    /\ c.kstack = b.kstack
    /\ c.ext_frame = b.ext_frame

\* one Context, in one state object, with the resources it was created with;
\* last_cpu is none for Init and the CPU of the last into_ready for Blocked
C35_OneContext ==
    sm.born # None =>
        /\ Len(C35_Held) = 1
        /\ C35_SameResources(C35_Held[1], sm.born[1])
        /\ sm.init # None => last_cpu(sm) = None
        /\ sm.blocked # None => last_cpu(sm) = Some(sm.call[1][1])

\* a transition between state objects: the state object that exists changes
C35_Transition ==
    \/ sm.init # None /\ sm'.ready # None
    \/ sm.ready # None /\ sm'.blocked # None
    \/ sm.blocked # None /\ sm'.ready # None

C35_Step ==
    (sm.born # None /\ C35_Transition) =>
        /\ sm'.born = sm.born
        /\ C35_SameResources(C35_Held'[1], C35_Held[1])
        /\ C35_Held'[1].runtime = C35_Held[1].runtime
        /\ (sm.ready # None /\ sm'.blocked # None) => C35_Held'[1].cpu = C35_Held[1].cpu

\* C35: every transition Init -> Ready, Ready -> Blocked and Blocked -> Ready
\* carries the same single Context: tid, address space, kernel stack,
\* register buffer and accumulated run time are unchanged, and the Context is
\* in exactly one state object, never duplicated. block leaves the CPU index
\* unchanged, so last_cpu() of a Blocked task is the CPU it was last Ready on;
\* last_cpu() of an Init task is none.
C35_ContextCarried == []C35_OneContext /\ [][C35_Step]_vars

\* a task with accumulated run time, blocked after it was Ready on CPU 1
C35_Witness ==
    /\ sm.blocked # None
    /\ sm.blocked[1].ctx.runtime = 2
    /\ sm.blocked[1].ctx.tid = 2
    /\ last_cpu(sm) = Some(1)

\* the order of the three effects of exit, and who frees the Context
C36_Order ==
    /\ (sm.ret_cell # None \/ sm.joined # None) => ~sm.tid_live
    /\ (sm.dropper # <<>> \/ sm.freed # <<>>) =>
           /\ sm.exit_pc = "done"
           /\ sm.ret_cell # None \/ sm.joined # None
    /\ Len(sm.dropper) + Len(sm.freed) = (IF sm.exit_pc = "done" THEN 1 ELSE 0)
    /\ sm.joined # None => sm.joined = Some(sm.retval)

C36_Step ==
    /\ (sm'.tid_live # sm.tid_live /\ sm.born # None) =>
           /\ sm.ready # None /\ sm'.ready = sm.ready
           /\ sm'.ret_cell = None /\ sm'.dropper = <<>>
    /\ sm'.freed # sm.freed =>
           /\ sm.exit_pc = "done" /\ sm.dropper # <<>>
           /\ sm'.freed = Append(sm.freed, Head(sm.dropper))
           /\ sm'.dropper = Tail(sm.dropper)
    /\ sm'.dropper # sm.dropper /\ sm'.freed = sm.freed =>
           /\ sm.ret_cell = Some(sm.retval) \/ sm.joined = Some(sm.retval)
           /\ sm'.dropper = <<sm.ready[1].ctx>>
           /\ sm'.ready = None

\* C36: Ready::exit(retval) first deallocates the task identity, then stores
\* retval in ret_cell, which wakes the joiners, then pushes the Context
\* exactly once onto the deferred-reclamation queue; the kernel stack and the
\* register buffer are not freed inside exit, only later by whoever drains
\* the queue.
C36_ExitOrder == []C36_Order /\ [][C36_Step]_vars

\* the joiner has the return value, the Context was freed by the drain
C36_Witness ==
    /\ sm.exit_pc = "done"
    /\ sm.joined = Some(2)
    /\ sm.dropper = <<>>
    /\ Len(sm.freed) = 1
    /\ ~sm.tid_live

(***************************************************************************)
(* task_ctl and SuspendToken (task/syscall.rs): the pending signal of the  *)
(* target task, the tokens held by the controlling tasks, and the wait     *)
(* object of each token, on which the suspended target blocks.             *)
(***************************************************************************)
\* Signal::Kill and Signal::Suspend(wo); two Suspend signals are equal when
\* they hold the same wait object
Kill == [kind |-> "Kill", wo |-> 0]
Suspend(k) == [kind |-> "Suspend", wo |-> k]

\* task_ctl, TASK_CTL_KILL: child.tid().replace_signal(Some(Signal::Kill))
task_ctl_kill ==
    /\ su' = [su EXCEPT !.signal = Some(Kill)]
    /\ UNCHANGED <<cs, rs, sm, rpc, baseVars>>

\* task_ctl, TASK_CTL_SUSPEND: a token with a new wait object is made, its
\* signal replaces the pending one, the token goes into the handle map
task_ctl_suspend(k) ==
    /\ su.tokens[k] = "none"
    /\ su' = [su EXCEPT !.signal = Some(Suspend(k)), !.tokens[k] = "live"]
    /\ UNCHANGED <<cs, rs, sm, rpc, baseVars>>

\* the target takes its pending signal: it exits on Kill and blocks on the
\* wait object of Suspend
target_take_signal ==
    /\ su.target = "running"
    /\ su.signal # None
    /\ IF su.signal[1] = Kill
       THEN su' = [su EXCEPT !.signal = None, !.target = "killed"]
       ELSE su' = [su EXCEPT !.signal = None, !.target = "suspended",
                             !.waiting = su.signal[1].wo]
    /\ UNCHANGED <<cs, rs, sm, rpc, baseVars>>

\* WaitObject::notify(1) on the wait object k: the number of tasks woken
woken(k) == IF su.waiting = k THEN 1 ELSE 0

\* SuspendToken::drop, line 31: self.wo.notify(1); a woken target runs again
\* and the drop is over, otherwise the signal is looked at next
drop_notify(k) ==
    /\ su.tokens[k] = "live"
    /\ IF woken(k) = 0
       THEN su' = [su EXCEPT !.tokens[k] = "update", !.notifies[k] = Inc(@)]
       ELSE su' = [su EXCEPT !.tokens[k] = "dropped", !.notifies[k] = Inc(@),
                             !.target = "running", !.waiting = 0]
    /\ UNCHANGED <<cs, rs, sm, rpc, baseVars>>

\* a drop that clears whatever signal is pending
drop_update_any(k) ==
    /\ su.tokens[k] = "update"
    /\ su' = [su EXCEPT !.tokens[k] = "dropped", !.signal = None]
    /\ UNCHANGED <<cs, rs, sm, rpc, baseVars>>

\* SuspendToken::drop, lines 32-36: under update_signal, the pending signal
\* is cleared if it equals self.signal()
drop_update(k) ==
    /\ su.tokens[k] = "update"
    /\ su' = [su EXCEPT !.tokens[k] = "dropped",
                        !.signal = IF su.signal = Some(Suspend(k)) THEN None ELSE @]
    /\ UNCHANGED <<cs, rs, sm, rpc, baseVars>>

NextSusp ==
    \/ task_ctl_kill
    \/ \E k \in TokenIds : task_ctl_suspend(k)
    \/ target_take_signal
    \/ \E k \in TokenIds : drop_notify(k)
    \/ \E k \in TokenIds : drop_update(k)

InitSusp == Init /\ signal = 0

SpecSusp == InitSusp /\ [][NextSusp]_vars

\* every token notifies its wait object at most once, and once when dropped
C39_NotifiedOnce ==
    \A k \in TokenIds :
        /\ su.notifies[k] <= 1
        /\ su.tokens[k] \in {"update", "dropped"} <=> su.notifies[k] = 1

C39_DropStep ==
    \A k \in TokenIds :
        /\ (su.tokens[k] = "live" /\ su'.tokens[k] # "live") =>
               /\ su'.signal = su.signal
               /\ su'.notifies[k] = su.notifies[k] + 1
               /\ su'.tokens[k] = (IF su.waiting = k THEN "dropped" ELSE "update")
        /\ (su.tokens[k] = "update" /\ su'.tokens[k] = "dropped") =>
               /\ su.signal = Some(Suspend(k)) => su'.signal = None
               /\ su.signal # Some(Suspend(k)) => su'.signal = su.signal

\* C39: dropping a SuspendToken notifies its wait object once; if that woke
\* no task, the pending signal of the target is cleared only when it is
\* still this token's Suspend signal, a pending Kill or another token's
\* Suspend is left alone; if a task was woken, the pending signal is not
\* modified.
C39_TokenDrop == []C39_NotifiedOnce /\ [][C39_DropStep]_vars

\* token 1 was dropped while the Suspend of token 2 is pending, and it still is
C39_Witness ==
    /\ su.tokens[1] = "dropped"
    /\ su.tokens[2] = "live"
    /\ su.target = "running"
    /\ su.signal = Some(Suspend(2))
    /\ su.notifies[1] = 1

(***************************************************************************)
(* The sync RPC Server (h2o_rpc/src/sync/server.rs): one thread iterates   *)
(* over the PacketIter, another sends through an EventSender or Responder; *)
(* both share Inner, the channel and the atomic stop flag.  rpc.last names *)
(* the operation of the last step, rpc.res the last result of the channel. *)
(***************************************************************************)
\* what the channel answers: EPIPE once the peer is gone, otherwise success
\* or another error
ChanResults(peer) == IF peer = "closed" THEN {"EPIPE"} ELSE {"Ok", "ETIME"}

\* a next that goes to the channel without a look at the stop flag
next_call_unchecked ==
    /\ rpc.it_pc = "idle"
    /\ rpc' = [rpc EXCEPT !.it_pc = "receive", !.last = "next"]
    /\ UNCHANGED <<cs, rs, sm, su, baseVars>>

\* PacketIter::next, lines 86-88: stop.load(Acquire), None if it is set
next_call ==
    /\ rpc.it_pc = "idle"
    /\ IF rpc.stop
       THEN rpc' = [rpc EXCEPT !.next_ret = "None", !.last = "next"]
       ELSE rpc' = [rpc EXCEPT !.it_pc = "receive", !.last = "next"]
    /\ UNCHANGED <<cs, rs, sm, su, baseVars>>

\* Inner::receive and the match of PacketIter::next on its result
inner_receive(res) ==
    /\ rpc.it_pc = "receive"
    /\ rpc' = [rpc EXCEPT !.it_pc = "idle", !.last = "receive", !.res = res,
                          !.stop = IF res = "EPIPE" THEN TRUE ELSE @,
                          !.next_ret = IF res = "EPIPE" THEN "None"
                                       ELSE IF res = "Ok" THEN "SomeOk" ELSE "SomeErr"]
    /\ UNCHANGED <<cs, rs, sm, su, baseVars>>

\* EventSender::send, lines 112-114, also as called by Responder::send with
\* its close argument: stop.load(Acquire), Disconnected if it is set
send_call(close) ==
    /\ rpc.se_pc = "idle"
    /\ IF rpc.stop
       THEN rpc' = [rpc EXCEPT !.send_ret = "Disconnected", !.last = "send",
                               !.se_pc = IF close THEN "close" ELSE "idle"]
       ELSE rpc' = [rpc EXCEPT !.se_pc = "send", !.se_close = close, !.last = "send"]
    /\ UNCHANGED <<cs, rs, sm, su, baseVars>>

\* Inner::send
inner_send(res) ==
    /\ rpc.se_pc = "send"
    /\ rpc' = [rpc EXCEPT !.se_pc = IF rpc.se_close THEN "close" ELSE "idle",
                          !.se_close = FALSE, !.last = "inner_send", !.res = res,
                          !.stop = IF res = "EPIPE" THEN TRUE ELSE @,
                          !.send_ret = IF res = "EPIPE" THEN "Disconnected"
                                       ELSE IF res = "Ok" THEN "Ok" ELSE "ServerSend"]
    /\ UNCHANGED <<cs, rs, sm, su, baseVars>>

\* EventSender::close, Responder::close and the close at the end of
\* Responder::send: stop.store(true, Release)
close ==
    /\ rpc.se_pc \in {"idle", "close"}
    /\ rpc' = [rpc EXCEPT !.stop = TRUE, !.se_pc = "idle", !.last = "close"]
    /\ UNCHANGED <<cs, rs, sm, su, baseVars>>

\* the other end of the channel goes away
peer_close ==
    /\ rpc.peer = "open"
    /\ rpc' = [rpc EXCEPT !.peer = "closed", !.last = "peer"]
    /\ UNCHANGED <<cs, rs, sm, su, baseVars>>

NextRpc ==
    \/ next_call
    \/ \E res \in ChanResults(rpc.peer) : inner_receive(res)
    \/ \E c \in BOOLEAN : send_call(c)
    \/ \E res \in ChanResults(rpc.peer) : inner_send(res)
    \/ close
    \/ peer_close

InitRpc == Init /\ signal = 0

SpecRpc == InitRpc /\ [][NextRpc]_vars

C40_Step ==
    /\ rpc.stop => rpc'.stop
    /\ (rpc' # rpc /\ rpc'.last = "next" /\ rpc.stop) =>
           /\ rpc'.next_ret = "None"
           /\ rpc'.it_pc = "idle"
           /\ rpc'.res = rpc.res
    /\ (rpc' # rpc /\ rpc'.last = "send" /\ rpc.stop) =>
           /\ rpc'.send_ret = "Disconnected"
           /\ rpc'.se_pc # "send"
           /\ rpc'.res = rpc.res
    /\ (rpc' # rpc /\ rpc'.last = "receive") =>
           /\ rpc'.res = "EPIPE" => rpc'.stop /\ rpc'.next_ret = "None"
           /\ rpc'.res \notin {"EPIPE", "Ok"} => rpc'.next_ret = "SomeErr" /\ rpc'.stop = rpc.stop
           /\ rpc'.res = "Ok" => rpc'.next_ret = "SomeOk" /\ rpc'.stop = rpc.stop
    /\ (rpc' # rpc /\ rpc'.last = "inner_send") =>
           /\ rpc'.res = "EPIPE" => rpc'.stop /\ rpc'.send_ret = "Disconnected"
           /\ rpc'.res # "EPIPE" => rpc'.stop = rpc.stop
    /\ (rpc' # rpc /\ rpc'.last = "close") => rpc'.stop

\* C40: the stop flag of the Server is absorbing: once it is set, by a close
\* of an EventSender or Responder or by a receive or send that failed with
\* EPIPE, it is never cleared; every later PacketIter::next returns None and
\* every later EventSender::send returns Disconnected, without touching the
\* channel. Errors other than EPIPE are yielded as Some(Err) and do not set
\* the flag.
C40_StopAbsorbing == [][C40_Step]_vars

\* after a close with the peer still there, next returned None and send
\* Disconnected, although the channel had delivered a packet before
C40_Witness ==
    /\ rpc.stop
    /\ rpc.peer = "open"
    /\ rpc.res = "Ok"
    /\ rpc.last = "next"
    /\ rpc.next_ret = "None"
    /\ rpc.send_ret = "Disconnected"
    /\ rpc.it_pc = "idle"

====
